---- MODULE Spec2Model ----
(***************************************************************************)
(* Model of the wosweat event scraper: the date normaliser, the text       *)
(* cleaner, the three extractors of netlify/functions/utils/scraper-utils  *)
(* (latest revision) and the aggregating handlers scheduled-scrape,        *)
(* get-events and trigger-scrape.                                          *)
(* Texts are TLA+ strings; TLC evaluates Len, SubSeq and \o on them.       *)
(***************************************************************************)
EXTENDS Integers, Sequences, FiniteSets, TLC

VARIABLES
    url,        \* extraction: the page URL handed to the scraper
    doc,        \* extraction: the containers the selectors matched
    events,     \* extraction: the EventData[] the extractor returned
    phase,      \* extraction: "loaded" before the pass, "extracted" after
    rendered,   \* extraction: TRUE when scrapeEvents took scrapeWithPuppeteer
    now,        \* Date.now() of the process, non-decreasing
    task,       \* aggregator: how scrapeEvents(site) settled, per site
    results,    \* aggregator: the value of each promise of scrapePromises
    errors,     \* aggregator: the errors array of the handler
    allEvents,  \* aggregator: results.flat()
    store,      \* /tmp/cached_events.json, the events last stored
    pc,         \* aggregator: position of the handler
    response,   \* aggregator: the handler's return value
    handler,    \* aggregator: which handler runs
    argText,    \* normaliser: the argument of extractDateFromText
    normalized, \* normaliser: the value extractDateFromText returned
    returned,   \* normaliser: TRUE once the call has returned
    profile,    \* registry: the value getSelectorsForSite(url) returned
    browser,    \* rendered-DOM scraper: the headless browser of the call
    bpc,        \* rendered-DOM scraper: position inside scrapeWithPuppeteer
    settledAs,  \* rendered-DOM scraper: how the call's promise settled
    request,    \* handlers: method, query parameters and headers of the request
    secret,     \* handlers: process.env.TRIGGER_SECRET, "" when not set
    cache,      \* client: the localStorage item 'cached_events'
    wall,       \* client: Date.now() in milliseconds
    svc,        \* client: one call of EventService.getEvents
    calls,      \* client: the fetchEvents / triggerUpdate calls of the context
    eventsState \* client: the state of eventsReducer

vars == <<url, doc, events, phase, rendered, now, task, results, errors, allEvents,
          store, pc, response, handler, argText, normalized, returned,
          profile, browser, bpc, settledAs, request, secret,
          cache, wall, svc, calls, eventsState>>

extractVars == <<url, doc, events, phase, rendered>>
aggVars == <<task, results, errors, allEvents, store, pc, response, handler>>
normVars == <<argText, normalized, returned>>
browserVars == <<browser, bpc, settledAs>>
requestVars == <<request, secret>>
clientVars == <<cache, wall, svc, calls, eventsState>>
restVars == <<browserVars, requestVars, clientVars>>

-----------------------------------------------------------------------------
(* Bounds of the model *)

MaxCands == 2        \* containers per selector match list
MaxTick == 1         \* how far Date.now() may advance during one run
CurrentYear == 2026  \* new Date().getFullYear() of the run
Epoch == 7           \* Date.now() when the run starts

-----------------------------------------------------------------------------
(* Characters and strings *)

Ch(s, i) == IF i >= 1 /\ i <= Len(s) THEN SubSeq(s, i, i) ELSE ""

From(s, i) == IF i > Len(s) THEN "" ELSE SubSeq(s, i, Len(s))

Upto(s, i) == IF i < 1 THEN "" ELSE SubSeq(s, 1, i)

\* s.substring(a - 1, b), empty when the range leaves the text
Sub(s, a, b) == IF a < 1 \/ b > Len(s) \/ a > b THEN "" ELSE SubSeq(s, a, b)

Min(S) == CHOOSE m \in S : \A n \in S : m <= n

Max(S) == CHOOSE m \in S : \A n \in S : m >= n

DigitChars == {"0", "1", "2", "3", "4", "5", "6", "7", "8", "9"}

\* \s of the regular expressions
WhiteChars == {" ", "\t", "\n", "\r", "\f"}

LowerChars == {"a", "b", "c", "d", "e", "f", "g", "h", "i", "j", "k", "l", "m",
               "n", "o", "p", "q", "r", "s", "t", "u", "v", "w", "x", "y", "z",
               "ä", "ö", "ü"}

UpperChars == {"A", "B", "C", "D", "E", "F", "G", "H", "I", "J", "K", "L", "M",
               "N", "O", "P", "Q", "R", "S", "T", "U", "V", "W", "X", "Y", "Z",
               "Ä", "Ö", "Ü"}

IsDigit(s, i) == Ch(s, i) \in DigitChars

IsWhite(s, i) == Ch(s, i) \in WhiteChars

\* [A-Za-zäöüÄÖÜ]
IsLetter(s, i) == Ch(s, i) \in (LowerChars \cup UpperChars)

\* [a-zäöü]
IsLower(s, i) == Ch(s, i) \in LowerChars

LowerOf(c) ==
    CASE c = "A" -> "a" [] c = "B" -> "b" [] c = "C" -> "c" [] c = "D" -> "d"
      [] c = "E" -> "e" [] c = "F" -> "f" [] c = "G" -> "g" [] c = "H" -> "h"
      [] c = "I" -> "i" [] c = "J" -> "j" [] c = "K" -> "k" [] c = "L" -> "l"
      [] c = "M" -> "m" [] c = "N" -> "n" [] c = "O" -> "o" [] c = "P" -> "p"
      [] c = "Q" -> "q" [] c = "R" -> "r" [] c = "S" -> "s" [] c = "T" -> "t"
      [] c = "U" -> "u" [] c = "V" -> "v" [] c = "W" -> "w" [] c = "X" -> "x"
      [] c = "Y" -> "y" [] c = "Z" -> "z" [] c = "Ä" -> "ä" [] c = "Ö" -> "ö"
      [] c = "Ü" -> "ü" [] OTHER -> c

RECURSIVE toLowerCase(_)
toLowerCase(s) ==
    IF s = "" THEN "" ELSE LowerOf(Ch(s, 1)) \o toLowerCase(From(s, 2))

\* String.prototype.trim
RECURSIVE trim(_)
trim(s) ==
    IF s = "" THEN ""
    ELSE IF IsWhite(s, 1) THEN trim(From(s, 2))
    ELSE IF IsWhite(s, Len(s)) THEN trim(Upto(s, Len(s) - 1))
    ELSE s

\* s.replace(/\s+/g, ' ')
RECURSIVE collapseWhite(_)
collapseWhite(s) ==
    IF s = "" THEN ""
    ELSE IF IsWhite(s, 1)
         THEN IF IsWhite(s, 2) THEN collapseWhite(From(s, 2))
              ELSE " " \o collapseWhite(From(s, 2))
         ELSE Ch(s, 1) \o collapseWhite(From(s, 2))

cleanText(text) == IF text = "" THEN "" ELSE trim(collapseWhite(text))

\* s.padStart(2, '0')
padStart2(s) ==
    IF Len(s) >= 2 THEN s ELSE IF Len(s) = 1 THEN "0" \o s ELSE "00"

DigitOf(n) ==
    CASE n = 0 -> "0" [] n = 1 -> "1" [] n = 2 -> "2" [] n = 3 -> "3"
      [] n = 4 -> "4" [] n = 5 -> "5" [] n = 6 -> "6" [] n = 7 -> "7"
      [] n = 8 -> "8" [] n = 9 -> "9"

\* the decimal text a template literal gives a non-negative integer
RECURSIVE numberToString(_)
numberToString(n) ==
    IF n < 10 THEN DigitOf(n)
    ELSE numberToString(n \div 10) \o DigitOf(n % 10)

ValOf(c) ==
    CASE c = "0" -> 0 [] c = "1" -> 1 [] c = "2" -> 2 [] c = "3" -> 3
      [] c = "4" -> 4 [] c = "5" -> 5 [] c = "6" -> 6 [] c = "7" -> 7
      [] c = "8" -> 8 [] c = "9" -> 9

RECURSIVE parseDigits(_)
parseDigits(s) ==
    IF s = "" THEN 0
    ELSE 10 * parseDigits(Upto(s, Len(s) - 1)) + ValOf(Ch(s, Len(s)))

\* s.includes(t)
includes(s, t) ==
    \E i \in 1..(Len(s) - Len(t) + 1) : SubSeq(s, i, i + Len(t) - 1) = t

startsWith(s, t) == Len(s) >= Len(t) /\ SubSeq(s, 1, Len(t)) = t

-----------------------------------------------------------------------------
(* Date normaliser: extractDateFromText *)

\* length of the digits of \d{1,2}\. at position i, 0 when it does not match
NumDotAt(s, i) ==
    IF IsDigit(s, i) /\ IsDigit(s, i + 1) /\ Ch(s, i + 2) = "." THEN 2
    ELSE IF IsDigit(s, i) /\ Ch(s, i + 1) = "." THEN 1
    ELSE 0

\* the groups of (\d{1,2})\.(\d{1,2})\. at position i, from the lengths dl
\* and ml of their digits
DayMonthGroups(s, i, dl, ml) ==
    IF dl > 0 /\ ml > 0
    THEN [ok |-> TRUE, day |-> Sub(s, i, i + dl - 1),
          month |-> Sub(s, i + dl + 1, i + dl + ml), next |-> i + dl + ml + 2]
    ELSE [ok |-> FALSE, day |-> "", month |-> "", next |-> 0]

MonthDotAfter(s, i, dl) ==
    DayMonthGroups(s, i, dl, IF dl > 0 THEN NumDotAt(s, i + dl + 1) ELSE 0)

\* (\d{1,2})\.(\d{1,2})\. at position i
DayMonthAt(s, i) == MonthDotAfter(s, i, NumDotAt(s, i))

\* (\d{4}) at position j
YearAt(s, j) ==
    IsDigit(s, j) /\ IsDigit(s, j + 1) /\ IsDigit(s, j + 2) /\ IsDigit(s, j + 3)

NoMatch == [found |-> FALSE, day |-> "", month |-> "", year |-> ""]

\* the match of a pattern is the one at its leftmost start position
Leftmost(S) == IF S = {} THEN 0 ELSE Min(S)

\* (\d{4}) follows the day-month match dm
HasYear(s, dm) == dm.ok /\ YearAt(s, dm.next)

\* (\d{4})$ follows the day-month match dm
EndsInYear(s, dm) == HasYear(s, dm) /\ dm.next + 3 = Len(s)

WithYear(s, dm) ==
    [found |-> TRUE, day |-> dm.day, month |-> dm.month,
     year |-> Sub(s, dm.next, dm.next + 3)]

\* the groups of the match that starts at i; no match when i = 0
DayMonthYearFrom(s, i) ==
    IF i = 0 THEN NoMatch ELSE WithYear(s, DayMonthAt(s, i))

\* /(\d{1,2})\.(\d{1,2})\.(\d{4})$/
dateAtEnd(s) ==
    DayMonthYearFrom(s,
        Leftmost({k \in 1..Len(s) : EndsInYear(s, DayMonthAt(s, k))}))

\* /.*?(\d{1,2})\.(\d{1,2})\.(\d{4})/ ; the text holds no line terminator
\* after cleaning, so the lazy prefix reaches every position
artilleryDateMatch(s) ==
    DayMonthYearFrom(s,
        Leftmost({k \in 1..Len(s) : HasYear(s, DayMonthAt(s, k))}))

\* the optional group (\d{4})? after a day-month match; "" is undefined
WithOptionalYear(s, dm) ==
    [found |-> TRUE, day |-> dm.day, month |-> dm.month,
     year |-> IF YearAt(s, dm.next) THEN Sub(s, dm.next, dm.next + 3)
              ELSE ""]

\* the groups of the match whose day starts at i; no match when i = 0
OptionalYearFrom(s, i) ==
    IF i = 0 THEN NoMatch ELSE WithOptionalYear(s, DayMonthAt(s, i))

\* /(\d{1,2})\.(\d{1,2})\.(\d{4})?/
germanDateMatch(s) ==
    OptionalYearFrom(s, Leftmost({k \in 1..Len(s) : DayMonthAt(s, k).ok}))

RECURSIVE SkipWhite(_, _)
SkipWhite(s, i) == IF IsWhite(s, i) THEN SkipWhite(s, i + 1) ELSE i

\* \.? at position p: the position after it
AfterDot(s, p) == IF Ch(s, p) = "." THEN p + 1 ELSE p

\* length of ([A-Za-z...]{2,3}) at position i, 0 when it does not match
AbbrevLen(s, i) ==
    IF IsLetter(s, i) /\ IsLetter(s, i + 1)
    THEN (IF IsLetter(s, i + 2) THEN 3 ELSE 2) ELSE 0

AbbrevDayFrom(s, i, k) ==
    IF k = 0 THEN 0 ELSE SkipWhite(s, AfterDot(s, i + k))

\* position of the day of ([A-Za-z...]{2,3})\.?\s*(\d{1,2})... started at i,
\* 0 when the weekday part does not match there
AbbrevDayAt(s, i) == AbbrevDayFrom(s, i, AbbrevLen(s, i))

\* the day-month groups match at d, the position AbbrevDayAt gave
DayFollows(s, d) == d > 0 /\ DayMonthAt(s, d).ok

\* /([A-Za-zäöüÄÖÜ]{2,3})\.?\s*(\d{1,2})\.(\d{1,2})\.(\d{4})?/ ; the weekday
\* part does not match at position 0, which stands for no start position
abbrevDayMatch(s) ==
    OptionalYearFrom(s,
        AbbrevDayAt(s,
            Leftmost({k \in 1..Len(s) : DayFollows(s, AbbrevDayAt(s, k))})))

\* the monthNames table; "" is undefined.  The table is a plain object, so
\* the key "constructor" finds Object.prototype.constructor, which is truthy
\* and is interpolated as the text of that function.
monthNames(key) ==
    CASE key \in {"januar", "january", "jänner", "jan"} -> "01"
      [] key \in {"februar", "february", "feb"} -> "02"
      [] key \in {"märz", "march", "mar"} -> "03"
      [] key \in {"april", "apr"} -> "04"
      [] key \in {"mai", "may"} -> "05"
      [] key \in {"juni", "june", "jun"} -> "06"
      [] key \in {"juli", "july", "jul"} -> "07"
      [] key \in {"august", "aug"} -> "08"
      [] key \in {"september", "sep", "sept"} -> "09"
      [] key \in {"oktober", "october", "okt", "oct"} -> "10"
      [] key \in {"november", "nov"} -> "11"
      [] key \in {"dezember", "december", "dez", "dec"} -> "12"
      [] key = "constructor" -> "function Object() { [native code] }"
      [] OTHER -> ""

RECURSIVE SkipLower(_, _)
SkipLower(s, i) == IF IsLower(s, i) THEN SkipLower(s, i + 1) ELSE i

\* length of (\d{1,2}) at position i, 0 when it does not match
DigitsLen(s, i) ==
    IF IsDigit(s, i) THEN (IF IsDigit(s, i + 1) THEN 2 ELSE 1) ELSE 0

\* positions reached by (\d{1,2})\.?\s+([a-zäöü]+)\.?\s+(\d{4}) started at i:
\* after (\d{1,2})\.? , after \s+ , after ([a-zäöü]+) , after \.? , after \s+
DayEnd(s, i) == AfterDot(s, i + DigitsLen(s, i))

NameStart(s, i) == SkipWhite(s, DayEnd(s, i))

NameEnd(s, i) == SkipLower(s, NameStart(s, i))

NameDotEnd(s, i) == AfterDot(s, NameEnd(s, i))

YearStart(s, i) == SkipWhite(s, NameDotEnd(s, i))

\* (\d{1,2})\.?\s+([a-zäöü]+)\.?\s+(\d{4}) started at i
MonthNameAt(s, i) ==
    IF /\ DigitsLen(s, i) > 0
       /\ NameStart(s, i) > DayEnd(s, i)
       /\ NameEnd(s, i) > NameStart(s, i)
       /\ YearStart(s, i) > NameDotEnd(s, i)
       /\ YearAt(s, YearStart(s, i))
    THEN [ok |-> TRUE, day |-> Sub(s, i, i + DigitsLen(s, i) - 1),
          month |-> Sub(s, NameStart(s, i), NameEnd(s, i) - 1),
          year |-> Sub(s, YearStart(s, i), YearStart(s, i) + 3)]
    ELSE [ok |-> FALSE, day |-> "", month |-> "", year |-> ""]

MonthNameGroups(m) ==
    IF m.ok
    THEN [found |-> TRUE, day |-> m.day, month |-> m.month, year |-> m.year]
    ELSE NoMatch

\* the leftmost match in the lower-cased text t; nothing matches at position 0
MonthNameIn(t) ==
    MonthNameGroups(
        MonthNameAt(t, Leftmost({k \in 1..Len(t) : MonthNameAt(t, k).ok})))

\* cleanDateText.toLowerCase().match(/(\d{1,2})\.?\s+([a-zäöü]+)\.?\s+(\d{4})/)
monthNameMatch(s) == MonthNameIn(toLowerCase(s))

\* the template without padStart
IsoOfUnpadded(year, month, day) == year \o "-" \o month \o "-" \o day

\* `${year}-${month.padStart(2, '0')}-${day.padStart(2, '0')}`
IsoOf(year, month, day) ==
    year \o "-" \o padStart2(month) \o "-" \o padStart2(day)

\* year = new Date().getFullYear() when the group did not take part
YearOrCurrent(y) == IF y = "" THEN numberToString(CurrentYear) ELSE y

\* the chain with the second pattern tried before the first
FirstPatternOfAnywhereFirst(m1, m2, m3, m4, m5, cleanDateText) ==
    IF m2.found THEN IsoOf(m2.year, m2.month, m2.day)
    ELSE IF m1.found THEN IsoOf(m1.year, m1.month, m1.day)
    ELSE IF m3.found THEN IsoOf(YearOrCurrent(m3.year), m3.month, m3.day)
    ELSE IF m4.found THEN IsoOf(YearOrCurrent(m4.year), m4.month, m4.day)
    ELSE IF m5.found /\ monthNames(m5.month) # ""
         THEN m5.year \o "-" \o monthNames(m5.month) \o "-" \o padStart2(m5.day)
    ELSE cleanDateText

\* the chain of if (match) return ... of extractDateFromText: m1..m5 are the
\* matches of its five patterns on cleanDateText, tried in this order
FirstPatternOf(m1, m2, m3, m4, m5, cleanDateText) ==
    IF m1.found THEN IsoOf(m1.year, m1.month, m1.day)
    ELSE IF m2.found THEN IsoOf(m2.year, m2.month, m2.day)
    ELSE IF m3.found THEN IsoOf(YearOrCurrent(m3.year), m3.month, m3.day)
    ELSE IF m4.found THEN IsoOf(YearOrCurrent(m4.year), m4.month, m4.day)
    ELSE IF m5.found /\ monthNames(m5.month) # ""
         THEN m5.year \o "-" \o monthNames(m5.month) \o "-" \o padStart2(m5.day)
    ELSE cleanDateText

NormaliseClean(cleanDateText) ==
    FirstPatternOf(dateAtEnd(cleanDateText),
                   artilleryDateMatch(cleanDateText),
                   germanDateMatch(cleanDateText),
                   abbrevDayMatch(cleanDateText),
                   monthNameMatch(cleanDateText),
                   cleanDateText)

extractDateFromText(dateText) ==
    IF dateText = "" THEN ""
    ELSE NormaliseClean(collapseWhite(trim(dateText)))

-----------------------------------------------------------------------------
(* new URL(relative, base).toString() *)

SchemeLen(u) ==
    IF startsWith(u, "https://") THEN 8
    ELSE IF startsWith(u, "http://") THEN 7 ELSE 0

\* position of the first "/" of the path, Len(u) + 1 when the path is empty
PathStart(u) ==
    LET S == {i \in (SchemeLen(u) + 1)..Len(u) : Ch(u, i) = "/"}
    IN  IF S = {} THEN Len(u) + 1 ELSE Min(S)

HostOf(u) == Sub(u, SchemeLen(u) + 1, PathStart(u) - 1)

\* an http(s) URL with a host: what the URL parser accepts without a base
IsAbsoluteUrl(u) == SchemeLen(u) > 0 /\ HostOf(u) # ""

OriginOf(u) == Upto(u, PathStart(u) - 1)

PathOf(u) == IF PathStart(u) > Len(u) THEN "/" ELSE From(u, PathStart(u))

\* the path up to and including its last "/"
DirOf(path) == Upto(path, Max({i \in 1..Len(path) : Ch(path, i) = "/"}))

\* new URL(rel, base) throws TypeError: a scheme without a host, or a
\* relative reference against a base that is not absolute
urlThrows(rel, base) ==
    \/ SchemeLen(rel) > 0 /\ HostOf(rel) = ""
    \/ SchemeLen(rel) = 0 /\ ~IsAbsoluteUrl(base)

resolveUrl(rel, base) ==
    IF SchemeLen(rel) > 0
    THEN (IF PathStart(rel) > Len(rel) THEN rel \o "/" ELSE rel)
    ELSE IF startsWith(rel, "/") THEN OriginOf(base) \o rel
    ELSE OriginOf(base) \o DirOf(PathOf(base)) \o rel

-----------------------------------------------------------------------------
(* Site profile registry: getSelectorsForSite *)

ArtilleryId == "artilleryproductions.bigcartel.com"
BaeckereiId == "diebaeckerei.at"

\* the chain with the longest identifier tested first
getSelectorsForSiteLongestFirst(u) ==
    IF includes(u, ArtilleryId)
    THEN [eventContainer |-> ".product",
          recurringEventContainer |-> "",
          venue |-> "Artillery Productions"]
    ELSE IF includes(u, "treibhaus.at")
    THEN [eventContainer |-> ".program-entry, .program-event, .event-item, div.item, article, .event, .col-md-4",
          recurringEventContainer |-> "",
          venue |-> "Treibhaus Innsbruck"]
    ELSE IF includes(u, "pmk.or.at")
    THEN [eventContainer |-> ".event, .veranstaltung, article",
          recurringEventContainer |-> "",
          venue |-> "PMK Innsbruck"]
    ELSE IF includes(u, "music-hall.at")
    THEN [eventContainer |-> ".event-list, .event-item, .dhvc-event, li.event, .event, article, .entry, .item",
          recurringEventContainer |-> "",
          venue |-> "Music Hall Innsbruck"]
    ELSE IF includes(u, BaeckereiId)
    THEN [eventContainer |-> ".event-thumb",
          recurringEventContainer |-> ".recurring-event__thumb",
          venue |-> "Die Bäckerei"]
    ELSE [eventContainer |-> "article, .event, .veranstaltung, div[class*=\"event\"], li",
          recurringEventContainer |-> "",
          venue |-> "Unknown Venue"]

getSelectorsForSite(u) ==
    IF includes(u, "treibhaus.at")
    THEN [eventContainer |-> ".program-entry, .program-event, .event-item, div.item, article, .event, .col-md-4",
          recurringEventContainer |-> "",
          venue |-> "Treibhaus Innsbruck"]
    ELSE IF includes(u, "pmk.or.at")
    THEN [eventContainer |-> ".event, .veranstaltung, article",
          recurringEventContainer |-> "",
          venue |-> "PMK Innsbruck"]
    ELSE IF includes(u, ArtilleryId)
    THEN [eventContainer |-> ".product",
          recurringEventContainer |-> "",
          venue |-> "Artillery Productions"]
    ELSE IF includes(u, "music-hall.at")
    THEN [eventContainer |-> ".event-list, .event-item, .dhvc-event, li.event, .event, article, .entry, .item",
          recurringEventContainer |-> "",
          venue |-> "Music Hall Innsbruck"]
    ELSE IF includes(u, BaeckereiId)
    THEN [eventContainer |-> ".event-thumb",
          recurringEventContainer |-> ".recurring-event__thumb",
          venue |-> "Die Bäckerei"]
    ELSE [eventContainer |-> "article, .event, .veranstaltung, div[class*=\"event\"], li",
          recurringEventContainer |-> "",
          venue |-> "Unknown Venue"]

-----------------------------------------------------------------------------
(* Extractors.  A container is the record of what the selectors find in it:  *)
(* title, date, descr, price: the text of the matched elements ("" when none *)
(* matches); href, src, datetime: attribute values ("" when absent);         *)
(* cancelled: the container has class is-cancelled; tags: the .b-tag texts.  *)
(* An extractor step returns [kind, event]: kind "event" when it pushed the  *)
(* event, "skip" when it returned without pushing, "error" when the body     *)
(* threw and the catch of the callback logged it.                            *)

NoEvent == [id |-> "", title |-> "", date |-> "", description |-> "",
            url |-> "", venue |-> "", imageUrl |-> ""]

Skipped == [kind |-> "skip", event |-> NoEvent]

Thrown == [kind |-> "error", event |-> NoEvent]

\* mutant: the id leaves the index out
MakeIdFromClockOnly(prefix, index, t) == prefix \o "-" \o numberToString(t)

\* `${prefix}-${index}-${Date.now()}`
MakeId(prefix, index, t) ==
    prefix \o "-" \o numberToString(index) \o "-" \o numberToString(t)

\* url and imageUrl of the pushed object; imageUrl "" stands for undefined
LinkThrows(c, u) ==
    \/ c.href # "" /\ urlThrows(c.href, u)
    \/ c.src # "" /\ urlThrows(c.src, u)

\* mutant: the link is pushed as found
FullUrlUnresolved(c, u) == IF c.href # "" THEN c.href ELSE u

FullUrl(c, u) == IF c.href # "" THEN resolveUrl(c.href, u) ELSE u

FullImageUrl(c, u) == IF c.src # "" THEN resolveUrl(c.src, u) ELSE ""

\* mutant: the date is looked for in the date text only and a title without
\* date text never qualifies
GenericStepDateTextOnly(c, index, u, selectors, t) ==
    LET title    == cleanText(c.title)
        dateText == cleanText(c.date)
        date     == extractDateFromText(dateText)
    IN  IF title # "" /\ dateText # "" /\ ~LinkThrows(c, u)
        THEN [kind |-> "event",
              event |-> [id |-> MakeId("event", index, t), title |-> title,
                         date |-> date, description |-> cleanText(c.descr),
                         url |-> FullUrl(c, u), venue |-> selectors.venue,
                         imageUrl |-> FullImageUrl(c, u)]]
        ELSE Skipped

\* a date was recognised that is neither the date text nor the title
hasDate(date, dateText, title) ==
    date # "" /\ date # dateText /\ date # title

\* the inclusion test and the push, from the cleaned title and date text and
\* the normalised date
GenericPush(c, index, u, selectors, t, title, dateText, date) ==
    IF title # "" /\ (hasDate(date, dateText, title) \/ dateText # "")
    THEN IF LinkThrows(c, u) THEN Thrown
         ELSE [kind |-> "event",
               event |-> [id |-> MakeId("event", index, t), title |-> title,
                          date |-> IF hasDate(date, dateText, title)
                                   THEN date ELSE dateText,
                          description |-> cleanText(c.descr),
                          url |-> FullUrl(c, u),
                          venue |-> selectors.venue,
                          imageUrl |-> FullImageUrl(c, u)]]
    ELSE Skipped

\* date = extractDateFromText(dateText || title)
GenericDated(c, index, u, selectors, t, title, dateText) ==
    GenericPush(c, index, u, selectors, t, title, dateText,
        extractDateFromText(IF dateText # "" THEN dateText ELSE title))

\* body of the .each callback of scrapeWithCheerio / scrapeWithPuppeteer
GenericStep(c, index, u, selectors, t) ==
    GenericDated(c, index, u, selectors, t,
                 cleanText(c.title), cleanText(c.date))

\* eventDate of a product: the date its title holds, "" when it holds none
ArtilleryDate(dateInTitle) ==
    IF dateInTitle.found
    THEN IsoOf(dateInTitle.year, dateInTitle.month, dateInTitle.day)
    ELSE ""

\* mutant: the product is pushed whatever its title
ArtilleryStepAnyTitle(c, index, u, t) ==
    IF LinkThrows(c, u) THEN Thrown
    ELSE [kind |-> "event",
          event |-> [id |-> MakeId("event", index, t),
                     title |-> cleanText(c.title), date |-> "",
                     description |-> "", url |-> FullUrl(c, u),
                     venue |-> "Artillery Productions",
                     imageUrl |-> FullImageUrl(c, u)]]

\* mutant: the date is looked for in the title and the price text
ArtilleryStepDateFromAnyText(c, index, u, t) ==
    LET title == cleanText(c.title)
        price == cleanText(c.price)
        eventDate == ArtilleryDate(artilleryDateMatch(title \o " " \o price))
    IN  IF title = "" THEN Skipped
        ELSE IF LinkThrows(c, u) THEN Thrown
        ELSE [kind |-> "event",
              event |-> [id |-> MakeId("event", index, t), title |-> title,
                         date |-> eventDate,
                         description |-> IF price # "" THEN "Price: " \o price ELSE "",
                         url |-> FullUrl(c, u),
                         venue |-> "Artillery Productions",
                         imageUrl |-> FullImageUrl(c, u)]]

\* body of the .each callback of extractArtilleryEvents
ArtilleryStep(c, index, u, t) ==
    LET title == cleanText(c.title)
        eventDate == ArtilleryDate(artilleryDateMatch(title))
        price == cleanText(c.price)
    IN  IF title = "" THEN Skipped
        ELSE IF LinkThrows(c, u) THEN Thrown
        ELSE [kind |-> "event",
              event |-> [id |-> MakeId("event", index, t), title |-> title,
                         date |-> eventDate,
                         description |-> IF price # "" THEN "Price: " \o price ELSE "",
                         url |-> FullUrl(c, u),
                         venue |-> "Artillery Productions",
                         imageUrl |-> FullImageUrl(c, u)]]

RECURSIVE CleanTags(_)
CleanTags(tags) ==
    IF tags = <<>> THEN <<>>
    ELSE IF cleanText(Head(tags)) # ""
         THEN <<cleanText(Head(tags))>> \o CleanTags(Tail(tags))
         ELSE CleanTags(Tail(tags))

\* tags.join(', ')
RECURSIVE JoinTags(_)
JoinTags(tags) ==
    IF tags = <<>> THEN ""
    ELSE IF Len(tags) = 1 THEN Head(tags)
    ELSE Head(tags) \o ", " \o JoinTags(Tail(tags))

\* the description with the "Categories" line of the tags, when there are any
WithTags(description, tags) ==
    IF Len(tags) > 0
    THEN description \o "\n\nCategories: " \o JoinTags(tags)
    ELSE description

\* mutant: the visible text first, the datetime attribute otherwise
BaeckereiDateVisibleFirst(c) ==
    extractDateFromText(IF cleanText(c.date) # "" THEN cleanText(c.date)
                        ELSE c.datetime)

\* datetime attribute first, the visible text otherwise
BaeckereiDate(c) ==
    extractDateFromText(IF c.datetime # "" THEN c.datetime
                        ELSE cleanText(c.date))

\* mutant: the marker is put before the title only
BaeckereiStepTitleOnly(c, index, u, selectors, t) ==
    LET isCancelled == c.cancelled
        title == cleanText(c.title)
        fullDescription == WithTags(cleanText(c.descr), CleanTags(c.tags))
    IN  IF title = "" THEN Skipped
        ELSE IF LinkThrows(c, u) THEN Thrown
        ELSE [kind |-> "event",
              event |-> [id |-> MakeId("event", index, t),
                         title |-> IF isCancelled THEN "[CANCELLED] " \o title
                                   ELSE title,
                         date |-> BaeckereiDate(c),
                         description |-> fullDescription,
                         url |-> FullUrl(c, u),
                         venue |-> selectors.venue,
                         imageUrl |-> FullImageUrl(c, u)]]

\* body of the first .each callback of extractBaeckereiEvents
BaeckereiStep(c, index, u, selectors, t) ==
    LET isCancelled == c.cancelled
        title == cleanText(c.title)
        fullDescription ==
            (IF isCancelled THEN "[CANCELLED] " ELSE "")
                \o WithTags(cleanText(c.descr), CleanTags(c.tags))
    IN  IF title = "" THEN Skipped
        ELSE IF LinkThrows(c, u) THEN Thrown
        ELSE [kind |-> "event",
              event |-> [id |-> MakeId("event", index, t),
                         title |-> IF isCancelled THEN "[CANCELLED] " \o title
                                   ELSE title,
                         date |-> BaeckereiDate(c),
                         description |-> fullDescription,
                         url |-> FullUrl(c, u),
                         venue |-> selectors.venue,
                         imageUrl |-> FullImageUrl(c, u)]]

\* mutant: the description is copied from the container
RecurringStepCopiedDescription(c, index, u, selectors, t) ==
    LET title == cleanText(c.title)
    IN  IF title = "" THEN Skipped
        ELSE IF LinkThrows(c, u) THEN Thrown
        ELSE [kind |-> "event",
              event |-> [id |-> MakeId("recurring-event", index, t),
                         title |-> "[Recurring] " \o title,
                         date |-> BaeckereiDate(c),
                         description |-> cleanText(c.descr),
                         url |-> FullUrl(c, u),
                         venue |-> selectors.venue,
                         imageUrl |-> FullImageUrl(c, u)]]

\* body of the second .each callback of extractBaeckereiEvents
RecurringStep(c, index, u, selectors, t) ==
    LET title == cleanText(c.title)
        dateText == cleanText(c.date)
    IN  IF title = "" THEN Skipped
        ELSE IF LinkThrows(c, u) THEN Thrown
        ELSE [kind |-> "event",
              event |-> [id |-> MakeId("recurring-event", index, t),
                         title |-> "[Recurring] " \o title,
                         date |-> BaeckereiDate(c),
                         description |-> "This is a recurring event at Die Bäckerei. Time: " \o dateText,
                         url |-> FullUrl(c, u),
                         venue |-> selectors.venue,
                         imageUrl |-> FullImageUrl(c, u)]]

\* which extractor scrapeWithCheerio / scrapeWithPuppeteer hand the page to
ExtractorFor(u) ==
    IF includes(u, ArtilleryId) THEN "artillery"
    ELSE IF includes(u, BaeckereiId) THEN "baeckerei"
    ELSE "generic"

\* mutant: an error of one callback loses the page's events
PushOrAbort(evs, r) ==
    IF r.kind = "event" THEN Append(evs, r.event)
    ELSE IF r.kind = "error" THEN <<>> ELSE evs

\* events.push of a step: only a step of kind "event" appends; a callback
\* that threw was caught inside the callback and leaves the array alone
Push(evs, r) == IF r.kind = "event" THEN Append(evs, r.event) ELSE evs

\* one callback of the first (or only) .each loop of the extractor
StepOf(extractor, c, index, u, selectors, t) ==
    CASE extractor = "artillery" -> ArtilleryStep(c, index, u, t)
      [] extractor = "baeckerei" -> BaeckereiStep(c, index, u, selectors, t)
      [] OTHER -> GenericStep(c, index, u, selectors, t)

\* $(container).each(...): the callbacks run in document order, index from 0;
\* ts[k] is Date.now() during the k-th callback of the whole pass
RECURSIVE EachContainer(_, _, _, _, _, _, _)
EachContainer(extractor, cs, k, u, selectors, ts, evs) ==
    IF k > Len(cs) THEN evs
    ELSE EachContainer(extractor, cs, k + 1, u, selectors, ts,
             Push(evs, StepOf(extractor, cs[k], k - 1, u, selectors, ts[k])))

RECURSIVE EachRecurring(_, _, _, _, _, _, _)
EachRecurring(cs, k, u, selectors, ts, off, evs) ==
    IF k > Len(cs) THEN evs
    ELSE EachRecurring(cs, k + 1, u, selectors, ts, off,
             Push(evs, RecurringStep(cs[k], k - 1, u, selectors, ts[off + k])))

\* the second loop of extractBaeckereiEvents appends to the events of the
\* first; the other extractors return after their only loop
ThenRecurring(extractor, selectors, u, d, ts, first) ==
    IF extractor = "baeckerei" /\ selectors.recurringEventContainer # ""
    THEN EachRecurring(d.recurring, 1, u, selectors, ts,
                       Len(d.containers), first)
    ELSE first

\* the events array an extraction of the loaded page d returns
ExtractWith(extractor, selectors, u, d, ts) ==
    ThenRecurring(extractor, selectors, u, d, ts,
        EachContainer(extractor, d.containers, 1, u, selectors, ts, <<>>))

ExtractEvents(u, d, ts) ==
    ExtractWith(ExtractorFor(u), getSelectorsForSite(u), u, d, ts)

\* scrapeWithCheerio from cheerio.load(html) on
scrapeWithCheerio(u, d, ts) == ExtractEvents(u, d, ts)

\* the rendered path without the two special cases
scrapeWithPuppeteerGenericOnly(u, d, ts) ==
    ExtractWith("generic", getSelectorsForSite(u), u, d, ts)

\* scrapeWithPuppeteer from cheerio.load(content) on: the same two special
\* cases, then the loop over selectors.eventContainer
scrapeWithPuppeteer(u, d, ts) ==
    IF includes(u, ArtilleryId)
    THEN ExtractWith("artillery", getSelectorsForSite(u), u, d, ts)
    ELSE IF includes(u, BaeckereiId)
    THEN ExtractWith("baeckerei", getSelectorsForSite(u), u, d, ts)
    ELSE ExtractWith("generic", getSelectorsForSite(u), u, d, ts)

\* the branch scrapeEvents takes: TRUE for scrapeWithPuppeteer
UsesPuppeteer(u, useJsRendering) ==
    \/ includes(u, BaeckereiId)
    \/ useJsRendering
    \/ includes(u, "music-hall.at")

\* the events of the page d of u on the path taken
Scraped(byPuppeteer, u, d, ts) ==
    IF byPuppeteer THEN scrapeWithPuppeteer(u, d, ts)
    ELSE scrapeWithCheerio(u, d, ts)

-----------------------------------------------------------------------------
(* Inputs of an extraction pass *)

Container(title, date, href, src) ==
    [title |-> title, date |-> date, descr |-> "Doors 20:00", href |-> href,
     src |-> src, price |-> "", datetime |-> "", cancelled |-> FALSE,
     tags |-> <<>>]

Containers ==
    { Container("Show", "16.05.2025", "/show/1", "img/a.png"),
      Container(" Gig\n 5.6. ", "", "", ""),
      Container(" \n", "16.05.2025", "/show/2", ""),
      Container("Show", "", "/show/3", ""),
      Container("Show", " free\ttext ", "tickets/7", "/img/b.png"),
      Container("Party", "45.13.2025", "", ""),
      Container("Show", "16.05.2025", "http://", ""),
      Container("Film", "16. Mai 2025", "https://tickets.example", "http://"),
      [Container("GIG NIGHT - 12.09.2025", "", "/product/gig", "")
         EXCEPT !.price = " 12 EUR ", !.descr = ""],
      [Container("Lesung", "Sa", "/e/5", "")
         EXCEPT !.datetime = "2025-05-17", !.cancelled = TRUE,
                !.tags = <<" Musik ", " ", "Wort">>] }

RecurringContainers ==
    { Container("Yoga", "Mo. 18:00", "/yoga", ""),
      Container("", "Di. 19:00", "", ""),
      [Container("Chor", "", "", "/img/c.png") EXCEPT !.datetime = "3.4."] }

SeqsUpTo(S, n) == UNION {[1..k -> S] : k \in 0..n}

ExtractSites ==
    { "https://venue.example/programm",
      "https://www.treibhaus.at/programm",
      "https://artilleryproductions.bigcartel.com/",
      "https://diebaeckerei.at/programm/" }

\* the documents a page of site u can load as: at most MaxCands containers,
\* the recurring ones only where the site has a selector for them
DocsOf(u, cands, recs) ==
    { d \in { [containers |-> cs, recurring |-> rs] :
                cs \in SeqsUpTo(cands, MaxCands),
                rs \in IF getSelectorsForSite(u).recurringEventContainer # ""
                       THEN SeqsUpTo(recs, MaxCands) ELSE {<<>>} } :
        Len(d.containers) + Len(d.recurring) <= MaxCands }

\* the values Date.now() takes during n consecutive callbacks
Clocks(from, n) ==
    { ts \in [1..n -> from..(Epoch + MaxTick)] :
        \A i \in 1..n : \A j \in 1..n : i <= j => ts[i] <= ts[j] }

LastClock(from, ts) == IF Len(ts) = 0 THEN from ELSE ts[Len(ts)]

NumContainers(d) == Len(d.containers) + Len(d.recurring)

-----------------------------------------------------------------------------
(* Extraction of one loaded page: scrapeWithCheerio from cheerio.load on,    *)
(* scrapeWithPuppeteer from page.content() on                                *)

NormIdle == argText = "" /\ normalized = "" /\ returned = FALSE

\* no profile looked up yet
NoProfile == [eventContainer |-> "", recurringEventContainer |-> "",
              venue |-> ""]

ProfileIdle == profile = NoProfile

\* scrapeWithPuppeteer has not been called: `let browser = null`
BrowserIdle == browser = "null" /\ bpc = "idle" /\ settledAs = "pending"

\* a request without query parameters and without an Authorization header
NoRequest == [httpMethod |-> "GET", refresh |-> FALSE, test |-> FALSE,
              url |-> "", authorization |-> ""]

RequestIdle == request = NoRequest /\ secret = ""

\* localStorage.getItem('cached_events') === null
NoItem == [kind |-> "absent", data |-> <<>>, timestamp |-> 0]

\* no reply received
NoReply == [settled |-> "pending", ok |-> FALSE, json |-> "none",
            success |-> FALSE, events |-> "missing", list |-> <<>>]

\* EventService.getEvents has not been called
NoCall == [pc |-> "idle", forceRefresh |-> FALSE, requested |-> FALSE,
           result |-> <<>>, reply |-> NoReply]

\* const initialState of the events context
initialState == [events |-> <<>>, loading |-> FALSE, error |-> "",
                 lastUpdated |-> 0]

ClientIdle ==
    /\ cache = NoItem /\ wall = 0 /\ svc = NoCall /\ calls = <<>>
    /\ eventsState = initialState

RestIdle == BrowserIdle /\ RequestIdle /\ ClientIdle

AggIdle ==
    /\ task = <<>> /\ results = <<>> /\ errors = <<>> /\ allEvents = <<>>
    /\ store = <<>> /\ pc = "idle" /\ handler = "none"
    /\ response = [statusCode |-> 0, message |-> "", errors |-> <<>>,
                   error |-> "", events |-> <<>>, mode |-> "",
                   success |-> "", fromCache |-> ""]

InitExtract ==
    /\ url \in ExtractSites
    /\ doc \in DocsOf(url, Containers, RecurringContainers)
    /\ events = <<>>
    /\ phase = "loaded"
    /\ rendered = UsesPuppeteer(url, FALSE)
    /\ now = Epoch
    /\ AggIdle
    /\ NormIdle
    /\ ProfileIdle
    /\ RestIdle

Extract ==
    /\ phase = "loaded"
    /\ \E ts \in Clocks(now, NumContainers(doc)) :
          /\ events' = Scraped(rendered, url, doc, ts)
          /\ now' = LastClock(now, ts)
    /\ phase' = "extracted"
    /\ UNCHANGED <<url, doc, rendered>>
    /\ UNCHANGED aggVars
    /\ UNCHANGED normVars
    /\ UNCHANGED profile
    /\ UNCHANGED restVars

NextExtract == Extract

SpecExtract == InitExtract /\ [][NextExtract]_vars

-----------------------------------------------------------------------------
(* Aggregating handlers: scheduled-scrape (all sites in parallel, failures   *)
(* collected in errors), get-events from "Fetching fresh events data" on and *)
(* trigger-scrape without a url parameter (sites one after the other).       *)

Handlers == {"scheduled-scrape", "get-events", "trigger-scrape"}

ScheduledSites ==
    << "https://www.treibhaus.at/programm",
       "https://pmk.or.at/termine",
       "https://artilleryproductions.bigcartel.com/",
       "https://www.music-hall.at/veranstaltungen/",
       "https://diebaeckerei.at/programm/" >>

SequentialSites ==
    << "https://www.treibhaus.at/programm",
       "https://pmk.or.at/termine" >>

\* const targetSites of the handler h
targetSites(h) ==
    IF h = "scheduled-scrape" THEN ScheduledSites ELSE SequentialSites

IsParallel(h) == h = "scheduled-scrape"

\* what scrapeEvents can reject with: an Error (here the one axios makes of a
\* 404 answer) or a value that is no Error
Throwables ==
    { [isError |-> TRUE, message |-> "Request failed with status code 404"],
      [isError |-> FALSE, message |-> ""] }

\* what fs.writeFileSync of storeEvents throws when the write fails
StoreError ==
    [isError |-> TRUE, message |-> "ENOSPC: no space left on device, write"]

\* how the call scrapeEvents(site) settled
Pending == [state |-> "pending", value |-> <<>>,
            reason |-> [isError |-> FALSE, message |-> ""]]

Fulfilled(evs) == [state |-> "fulfilled", value |-> evs,
                   reason |-> [isError |-> FALSE, message |-> ""]]

Rejected(thrown) == [state |-> "rejected", value |-> <<>>, reason |-> thrown]

\* a promise of scrapePromises: not settled yet, or resolved with a value
Unsettled == [settled |-> FALSE, value |-> <<>>]

Resolved(evs) == [settled |-> TRUE, value |-> evs]

\* mutant: every failure is recorded as an unknown error of the site
ErrorOfUnknown(thrown, site) ==
    [message |-> "Unknown error scraping " \o site]

\* error instanceof Error ? error : new Error(`Unknown error scraping ${site}`)
ErrorOf(thrown, site) ==
    IF thrown.isError THEN [message |-> thrown.message]
    ELSE [message |-> "Unknown error scraping " \o site]

\* mutant: an event whose id an earlier site already produced is left out
FlatDistinctIds(rs) ==
    LET RECURSIVE Go(_, _)
        Go(k, acc) ==
            IF k > Len(rs) THEN acc
            ELSE Go(k + 1,
                    acc \o SelectSeq(rs[k],
                               LAMBDA e : \A j \in 1..Len(acc) :
                                              acc[j].id # e.id))
    IN  Go(1, <<>>)

\* results.flat()
Flat(rs) ==
    LET RECURSIVE Concat(_)
        Concat(k) == IF k > Len(rs) THEN <<>> ELSE rs[k] \o Concat(k + 1)
    IN  Concat(1)

\* errors.map(e => e.message)
RECURSIVE Messages(_)
Messages(errs) ==
    IF errs = <<>> THEN <<>>
    ELSE <<Head(errs).message>> \o Messages(Tail(errs))

\* the handler's answer; "" and <<>> stand for a field the body does not have
NoResponse == [statusCode |-> 0, message |-> "", errors |-> <<>>,
               error |-> "", events |-> <<>>, mode |-> "",
               success |-> "", fromCache |-> ""]

\* mutant: a run with a failed site answers 500
ScheduledResponseFatal(evs, errs) ==
    IF errs = <<>>
    THEN [NoResponse EXCEPT !.statusCode = 200,
             !.message = "Scraped " \o numberToString(Len(evs))
                 \o " events from " \o numberToString(Len(ScheduledSites))
                 \o " sites"]
    ELSE [NoResponse EXCEPT !.statusCode = 500,
                            !.error = Head(errs).message]

\* the return of scheduled-scrape after the store was written; errors is
\* undefined, hence left out of the body, when no site failed
ScheduledResponse(evs, errs) ==
    [NoResponse EXCEPT !.statusCode = 200,
        !.message = "Scraped " \o numberToString(Len(evs))
            \o " events from " \o numberToString(Len(ScheduledSites))
            \o " sites",
        !.errors = Messages(errs)]

\* the return of trigger-scrape at the end of its try block
TriggerResponse(evs) ==
    [NoResponse EXCEPT !.statusCode = 200, !.success = "true",
        !.message = "Scraped and stored " \o numberToString(Len(evs))
            \o " events from " \o numberToString(Len(SequentialSites))
            \o " sites"]

\* the outer catch of scheduled-scrape and of trigger-scrape
ErrorResponse(thrown) ==
    [NoResponse EXCEPT !.statusCode = 500,
        !.error = IF thrown.isError THEN thrown.message ELSE "Unknown error"]

\* the return of get-events with the events it scraped
ScrapedResponse(evs) ==
    [NoResponse EXCEPT !.statusCode = 200, !.events = evs, !.mode = "scraped",
                       !.success = "true", !.fromCache = "false"]

\* generateSampleEvents(); d1, d2, d3 are today, tomorrow and a week from
\* today as YYYY-MM-DD
SampleEvents(d1, d2, d3) ==
    << [id |-> "sample-1", title |-> "Live Music Night", date |-> d1,
        description |-> "Join us for a night of live music featuring local bands and performers.",
        url |-> "https://www.treibhaus.at/programm",
        venue |-> "Treibhaus Innsbruck",
        imageUrl |-> "https://via.placeholder.com/300?text=Live+Music"],
       [id |-> "sample-2", title |-> "Poetry Slam", date |-> d2,
        description |-> "Experience the best poets in the region competing in our monthly poetry slam.",
        url |-> "https://www.treibhaus.at/programm",
        venue |-> "Treibhaus Innsbruck",
        imageUrl |-> "https://via.placeholder.com/300?text=Poetry+Slam"],
       [id |-> "sample-3", title |-> "Art Exhibition Opening", date |-> d3,
        description |-> "Opening night for our new contemporary art exhibition featuring works from local artists.",
        url |-> "https://pmk.or.at/termine",
        venue |-> "PMK Innsbruck",
        imageUrl |-> "https://via.placeholder.com/300?text=Art+Exhibition"] >>

\* the day of the run and the two days generateSampleEvents derives from it
Today == numberToString(CurrentYear) \o "-11-05"
Tomorrow == numberToString(CurrentYear) \o "-11-06"
NextWeek == numberToString(CurrentYear) \o "-11-12"

\* the return of get-events when no site gave an event
FallbackResponse ==
    [NoResponse EXCEPT !.statusCode = 200,
        !.events = SampleEvents(Today, Tomorrow, NextWeek),
        !.mode = "fallback", !.success = "true", !.fromCache = "false"]

\* the pages the sites serve during a run: the first site an empty programme,
\* one event or two, the other sites one event
NoDoc == [containers |-> <<>>, recurring |-> <<>>]

AggPages(u) ==
    IF u = ScheduledSites[1]
    THEN { NoDoc,
           [NoDoc EXCEPT !.containers =
               <<Container("Show", "16.05.2025", "/show/1", "")>>],
           [NoDoc EXCEPT !.containers =
               <<Container("Show", "16.05.2025", "/show/1", ""),
                 Container("Gig", "17.05.2025", "", "")>>] }
    ELSE { [NoDoc EXCEPT !.containers =
               <<Container("Show", "16.05.2025", "/show/1", "")>>] }

ExtractIdle ==
    /\ url = "" /\ doc = NoDoc /\ events = <<>> /\ phase = "idle"
    /\ rendered = FALSE

InitAgg ==
    /\ handler \in Handlers
    /\ task = [i \in 1..Len(targetSites(handler)) |-> Pending]
    /\ results = IF IsParallel(handler)
                 THEN [i \in 1..Len(targetSites(handler)) |-> Unsettled]
                 ELSE <<>>
    /\ errors = <<>>
    /\ allEvents = <<>>
    /\ store = <<>>
    /\ pc = "scraping"
    /\ response = NoResponse
    /\ now = Epoch
    /\ ExtractIdle
    /\ NormIdle
    /\ ProfileIdle
    /\ RestIdle

\* scheduled-scrape starts every scrape in targetSites.map, so they settle in
\* any order; the for loops of the other handlers await one site at a time
MaySettle(i) ==
    /\ pc = "scraping"
    /\ task[i].state = "pending"
    /\ IsParallel(handler) \/ \A j \in 1..(i - 1) : task[j].state # "pending"

\* the try branch of the per-site callback / loop body, siteEvents given
KeepEvents(i, siteEvents) ==
    /\ task' = [task EXCEPT ![i] = Fulfilled(siteEvents)]
    /\ results' = IF IsParallel(handler)
                  THEN [results EXCEPT ![i] = Resolved(siteEvents)]
                  ELSE results
    /\ allEvents' = IF IsParallel(handler) THEN allEvents
                    ELSE allEvents \o siteEvents

\* scrapeEvents(site) resolves with the events of the page the site served
SiteFulfils(i) ==
    /\ MaySettle(i)
    /\ \E d \in AggPages(targetSites(handler)[i]) :
          \E ts \in Clocks(now, NumContainers(d)) :
              /\ KeepEvents(i, ExtractEvents(targetSites(handler)[i], d, ts))
              /\ now' = LastClock(now, ts)
    /\ UNCHANGED <<errors, store, pc, response, handler>>
    /\ UNCHANGED extractVars
    /\ UNCHANGED normVars
    /\ UNCHANGED profile
    /\ UNCHANGED restVars

\* scrapeEvents(site) rejects: scheduled-scrape records the failure and its
\* callback returns []; the other handlers log it and go on
SiteRejects(i) ==
    /\ MaySettle(i)
    /\ \E thrown \in Throwables :
          /\ task' = [task EXCEPT ![i] = Rejected(thrown)]
          /\ errors' = IF IsParallel(handler)
                       THEN Append(errors,
                                ErrorOf(thrown, targetSites(handler)[i]))
                       ELSE errors
    /\ results' = IF IsParallel(handler)
                  THEN [results EXCEPT ![i] = Resolved(<<>>)]
                  ELSE results
    /\ UNCHANGED <<allEvents, store, pc, response, handler, now>>
    /\ UNCHANGED extractVars
    /\ UNCHANGED normVars
    /\ UNCHANGED profile
    /\ UNCHANGED restVars

\* results = await Promise.all(scrapePromises); allEvents = results.flat()
AwaitAll ==
    /\ pc = "scraping"
    /\ IsParallel(handler)
    /\ \A i \in DOMAIN results : results[i].settled
    /\ allEvents' = Flat([i \in DOMAIN results |-> results[i].value])
    /\ pc' = "storing"
    /\ UNCHANGED <<task, results, errors, store, response, handler, now>>
    /\ UNCHANGED extractVars
    /\ UNCHANGED normVars
    /\ UNCHANGED profile
    /\ UNCHANGED restVars

\* the for loop of get-events / trigger-scrape is over: the store is written
\* only when an event was found
LoopEnds ==
    /\ pc = "scraping"
    /\ ~IsParallel(handler)
    /\ \A i \in DOMAIN task : task[i].state # "pending"
    /\ IF allEvents # <<>>
       THEN pc' = "storing" /\ UNCHANGED response
       ELSE /\ pc' = "done"
            /\ response' = IF handler = "get-events" THEN FallbackResponse
                           ELSE TriggerResponse(allEvents)
    /\ UNCHANGED <<task, results, errors, allEvents, store, handler, now>>
    /\ UNCHANGED extractVars
    /\ UNCHANGED normVars
    /\ UNCHANGED profile
    /\ UNCHANGED restVars

\* await storeEvents(allEvents) wrote the file
StoreSucceeds ==
    /\ pc = "storing"
    /\ store' = allEvents
    /\ response' = CASE handler = "scheduled-scrape" ->
                            ScheduledResponse(allEvents, errors)
                     [] handler = "trigger-scrape" ->
                            TriggerResponse(allEvents)
                     [] OTHER -> ScrapedResponse(allEvents)
    /\ pc' = "done"
    /\ UNCHANGED <<task, results, errors, allEvents, handler, now>>
    /\ UNCHANGED extractVars
    /\ UNCHANGED normVars
    /\ UNCHANGED profile
    /\ UNCHANGED restVars

\* await storeEvents(allEvents) threw: get-events logs it and answers with
\* the events, the other two handlers answer from their outer catch
StoreFails ==
    /\ pc = "storing"
    /\ response' = IF handler = "get-events" THEN ScrapedResponse(allEvents)
                   ELSE ErrorResponse(StoreError)
    /\ pc' = "done"
    /\ UNCHANGED <<task, results, errors, allEvents, store, handler, now>>
    /\ UNCHANGED extractVars
    /\ UNCHANGED normVars
    /\ UNCHANGED profile
    /\ UNCHANGED restVars

NextAgg ==
    \/ \E i \in DOMAIN task : SiteFulfils(i)
    \/ \E i \in DOMAIN task : SiteRejects(i)
    \/ AwaitAll
    \/ LoopEnds
    \/ StoreSucceeds
    \/ StoreFails

SpecAgg == InitAgg /\ [][NextAgg]_vars

-----------------------------------------------------------------------------
(* Reading an extraction result back against the loaded page *)

IdPrefix(id) ==
    IF startsWith(id, "recurring-event-") THEN "recurring-event" ELSE "event"

\* the index an id carries: the digits between the prefix and the next "-"
IdIndex(id) ==
    LET rest == From(id, Len(IdPrefix(id)) + 2)
        dash == Min({i \in 1..Len(rest) : Ch(rest, i) = "-"} \cup {Len(rest) + 1})
    IN  parseDigits(Upto(rest, dash - 1))

\* the container an emitted event was made from
SourceOf(e) ==
    IF IdPrefix(e.id) = "recurring-event"
    THEN doc.recurring[IdIndex(e.id) + 1]
    ELSE doc.containers[IdIndex(e.id) + 1]

\* the events made from the k-th container of the first loop / of the second
EventsOfContainer(k) ==
    {j \in 1..Len(events) :
        IdPrefix(events[j].id) = "event" /\ IdIndex(events[j].id) = k - 1}

EventsOfRecurring(k) ==
    {j \in 1..Len(events) :
        IdPrefix(events[j].id) = "recurring-event"
        /\ IdIndex(events[j].id) = k - 1}

IsLeapYear(y) == (y % 4 = 0 /\ y % 100 # 0) \/ y % 400 = 0

DaysInMonth(y, m) ==
    IF m \in {4, 6, 9, 11} THEN 30
    ELSE IF m = 2 THEN (IF IsLeapYear(y) THEN 29 ELSE 28)
    ELSE 31

\* the shape YYYY-MM-DD
IsIsoShaped(s) ==
    /\ Len(s) = 10
    /\ \A i \in {1, 2, 3, 4, 6, 7, 9, 10} : IsDigit(s, i)
    /\ Ch(s, 5) = "-" /\ Ch(s, 8) = "-"

\* a date of the calendar written YYYY-MM-DD
IsCalendarDate(s) ==
    /\ IsIsoShaped(s)
    /\ LET y == parseDigits(Sub(s, 1, 4))
           m == parseDigits(Sub(s, 6, 7))
           d == parseDigits(Sub(s, 9, 10))
       IN  m \in 1..12 /\ d \in 1..DaysInMonth(y, m)

\* the date text a container carries: the machine-readable attribute where the
\* extractor reads it, the visible date text otherwise
RawDateText(c) ==
    IF ExtractorFor(url) = "baeckerei" /\ c.datetime # ""
    THEN cleanText(c.datetime)
    ELSE IF ExtractorFor(url) = "artillery" THEN ""
    ELSE cleanText(c.date)

Extracted == phase = "extracted"

GenericPage == ExtractorFor(url) = "generic"

\* the inclusion rule of the generic extractor, on the container itself
InclusionRule(c) ==
    /\ cleanText(c.title) # ""
    /\ \/ cleanText(c.date) # ""
       \/ IsIsoShaped(extractDateFromText(cleanText(c.title)))

-----------------------------------------------------------------------------
(* C1: every emitted event's date is a valid calendar date YYYY-MM-DD or     *)
(* exactly the cleaned date text of its candidate, and it is not empty when  *)
(* the candidate carried a date text.                                        *)
C1_DateValidOrRawText ==
    Extracted =>
        \A j \in 1..Len(events) :
            LET e == events[j]
                c == SourceOf(e)
            IN  /\ IsCalendarDate(e.date) \/ e.date = RawDateText(c)
                /\ RawDateText(c) # "" => e.date # ""

-----------------------------------------------------------------------------
(* C5: a container whose field extraction throws yields no event, every      *)
(* other container that qualifies still yields exactly one event, and the    *)
(* events stand in document order.                                           *)
Qualifies(c) ==
    IF GenericPage THEN InclusionRule(c) ELSE cleanText(c.title) # ""

C5_BadCandidateSkippedOnly ==
    Extracted =>
        /\ \A k \in 1..Len(doc.containers) :
              LET c == doc.containers[k]
              IN  IF LinkThrows(c, url) THEN EventsOfContainer(k) = {}
                  ELSE Qualifies(c) => Cardinality(EventsOfContainer(k)) = 1
        /\ \A i \in 1..Len(events) : \A j \in 1..Len(events) :
              (i < j /\ IdPrefix(events[i].id) = IdPrefix(events[j].id))
                  => IdIndex(events[i].id) < IdIndex(events[j].id)

\* a page with a throwing container between two good ones has been extracted
C5_Witness ==
    /\ Extracted
    /\ Len(doc.containers) >= 2
    /\ LinkThrows(doc.containers[1], url)
    /\ ~LinkThrows(doc.containers[2], url) /\ Qualifies(doc.containers[2])
    /\ Len(events) = 1

-----------------------------------------------------------------------------
(* C6 as stated: the generic extractor keeps a container if and only if the  *)
(* inclusion rule holds for it.                                              *)
C6_KeptIffRule ==
    (Extracted /\ GenericPage) =>
        \A k \in 1..Len(doc.containers) :
            (EventsOfContainer(k) # {}) <=> InclusionRule(doc.containers[k])

(* C6 amended: the generic extractor keeps a container if and only if the    *)
(* inclusion rule holds for it and resolving its link and image does not     *)
(* throw; a container failing the rule yields nothing.                       *)
C6_KeptIffRuleAndResolvable ==
    (Extracted /\ GenericPage) =>
        \A k \in 1..Len(doc.containers) :
            (Cardinality(EventsOfContainer(k)) = 1)
                <=> (InclusionRule(doc.containers[k])
                     /\ ~LinkThrows(doc.containers[k], url))

\* a generic page with a container kept for the date in its title and a
\* container dropped for want of any date has been extracted
C6_Witness ==
    /\ Extracted /\ GenericPage
    /\ Len(doc.containers) = 2
    /\ cleanText(doc.containers[1].date) = ""
    /\ InclusionRule(doc.containers[1])
    /\ cleanText(doc.containers[2].title) # ""
    /\ ~InclusionRule(doc.containers[2])
    /\ Len(events) = 1

-----------------------------------------------------------------------------
(* C7: no extractor emits an event whose title, or whose container's cleaned *)
(* title, is empty.                                                          *)
C7_NoEmptyTitle ==
    Extracted =>
        \A j \in 1..Len(events) :
            events[j].title # "" /\ cleanText(SourceOf(events[j]).title) # ""

\* a page holding a container with a blank title and a date was extracted
C7_Witness ==
    /\ Extracted
    /\ \E k \in 1..Len(doc.containers) :
          /\ cleanText(doc.containers[k].title) = ""
          /\ cleanText(doc.containers[k].date) # ""
    /\ Len(events) >= 1

-----------------------------------------------------------------------------
(* C8: every emitted url is absolute: the page URL when the container has no *)
(* link, otherwise the link resolved against the page URL; an image URL,     *)
(* when present, is absolute as well.                                        *)
C8_AbsoluteUrls ==
    Extracted =>
        \A j \in 1..Len(events) :
            LET e == events[j]
                c == SourceOf(e)
            IN  /\ IsAbsoluteUrl(e.url)
                /\ c.href = "" => e.url = url
                /\ startsWith(c.href, "/") => e.url = OriginOf(url) \o c.href
                /\ (url = "https://venue.example/programm" /\ c.href = "/show/1")
                      => e.url = "https://venue.example/show/1"
                /\ e.imageUrl # "" => IsAbsoluteUrl(e.imageUrl)
                /\ (e.imageUrl = "") <=> (c.src = "")

\* "/show/1" was resolved against "https://venue.example/programm"
C8_Witness ==
    /\ Extracted
    /\ url = "https://venue.example/programm"
    /\ \E j \in 1..Len(events) :
          /\ SourceOf(events[j]).href = "/show/1"
          /\ events[j].url = "https://venue.example/show/1"
          /\ events[j].imageUrl = "https://venue.example/img/a.png"

-----------------------------------------------------------------------------
(* C9 as stated: within one extraction no two events share an id, and the    *)
(* index carried by the ids increases in output order.                       *)
C9_UniqueIdsIndexIncreasing ==
    Extracted =>
        \A i \in 1..Len(events) : \A j \in 1..Len(events) :
            i < j => /\ events[i].id # events[j].id
                     /\ IdIndex(events[i].id) < IdIndex(events[j].id)

(* C9 amended: within one extraction no two events share an id, and the      *)
(* index carried by the ids increases in output order within each loop; the  *)
(* recurring loop of the dual-section extractor counts from 0 again.         *)
C9_UniqueIdsIndexIncreasingPerLoop ==
    Extracted =>
        \A i \in 1..Len(events) : \A j \in 1..Len(events) :
            i < j => /\ events[i].id # events[j].id
                     /\ IdPrefix(events[i].id) = IdPrefix(events[j].id)
                            => IdIndex(events[i].id) < IdIndex(events[j].id)

\* both loops of the dual-section extractor emitted an event during the same
\* millisecond
C9_Witness ==
    /\ Extracted
    /\ ExtractorFor(url) = "baeckerei"
    /\ Len(events) = 2
    /\ IdPrefix(events[1].id) = "event"
    /\ IdPrefix(events[2].id) = "recurring-event"
    /\ now = Epoch

-----------------------------------------------------------------------------
(* Reading an aggregating run back against how its scrapes settled *)

\* the site loop is over and allEvents holds the combined result
Aggregated == pc \in {"storing", "done"}

SiteUrl(i) == targetSites(handler)[i]

RejectedSites == {i \in DOMAIN task : task[i].state = "rejected"}

FulfilledSites == {i \in DOMAIN task : task[i].state = "fulfilled"}

\* the per-site event lists one after the other, from site i on
RECURSIVE ConcatFrom(_)
ConcatFrom(i) ==
    IF i > Len(task) THEN <<>> ELSE task[i].value \o ConcatFrom(i + 1)

\* every event a successful site returned stands in the combined result
OtherSitesKept ==
    \A i \in FulfilledSites : \A k \in 1..Len(task[i].value) :
        \E j \in 1..Len(allEvents) : allEvents[j] = task[i].value[k]

\* the failure entry the thrown value of site i is recorded as
EntryOfSite(i) ==
    IF task[i].reason.isError THEN [message |-> task[i].reason.message]
    ELSE [message |-> "Unknown error scraping " \o SiteUrl(i)]

\* the site whose registry profile names venue v
SiteOfVenue(v) ==
    CHOOSE i \in DOMAIN task : getSelectorsForSite(SiteUrl(i)).venue = v

\* the run is not stuck: a scrape is awaited and free to settle either way,
\* or all have settled and the handler goes on to store and answer
RunGoesOn ==
    \/ \E i \in DOMAIN task : MaySettle(i)
    \/ pc = "scraping" /\ \A i \in DOMAIN task : task[i].state # "pending"
    \/ pc = "storing"

\* the Date.now() an id carries: the digits after its last "-"
IdClock(id) ==
    parseDigits(From(id, Max({i \in 1..Len(id) : Ch(id, i) = "-"}) + 1))

-----------------------------------------------------------------------------
-----------------------------------------------------------------------------
(* C3: the combined event list is exactly the concatenation of the per-site  *)
(* event lists in input-site order, each list in its own order, with nothing *)
(* removed, reordered or deduplicated, in whatever order the parallel        *)
(* scrapes completed.                                                        *)
C3_ConcatInSiteOrder ==
    Aggregated =>
        /\ allEvents = ConcatFrom(1)
        /\ \A a \in 1..Len(allEvents) : \A b \in 1..Len(allEvents) :
              a < b => SiteOfVenue(allEvents[a].venue)
                          <= SiteOfVenue(allEvents[b].venue)

\* a parallel run has finished in which a later site completed before an
\* earlier one and two sites returned events with the same id
C3_Witness ==
    /\ IsParallel(handler) /\ pc = "done"
    /\ \E a \in 1..Len(allEvents) : \E b \in 1..Len(allEvents) :
          a < b /\ IdClock(allEvents[a].id) > IdClock(allEvents[b].id)
    /\ \E a \in 1..Len(allEvents) : \E b \in 1..Len(allEvents) :
          a < b /\ allEvents[a].id = allEvents[b].id

-----------------------------------------------------------------------------
-----------------------------------------------------------------------------
(* C10: within one run that aggregates several sites no two events of the    *)
(* combined result have the same id.                                         *)
C10_UniqueIdsAcrossSites ==
    Aggregated =>
        \A a \in 1..Len(allEvents) : \A b \in 1..Len(allEvents) :
            a < b => allEvents[a].id # allEvents[b].id

-----------------------------------------------------------------------------
(* The date normaliser called on its own: one call of extractDateFromText    *)
(* on a text drawn from NormInputs                                           *)

UpperOf(c) ==
    IF c \in LowerChars THEN CHOOSE u \in UpperChars : LowerOf(u) = c ELSE c

RECURSIVE toUpperCase(_)
toUpperCase(s) ==
    IF s = "" THEN "" ELSE UpperOf(Ch(s, 1)) \o toUpperCase(From(s, 2))

Capitalised(s) == UpperOf(Ch(s, 1)) \o From(s, 2)

\* the own keys of the monthNames table
MonthKeys ==
    {"januar", "january", "jänner", "jan", "februar", "february", "feb",
     "märz", "march", "mar", "april", "apr", "mai", "may", "juni", "june",
     "jun", "juli", "july", "jul", "august", "aug", "september", "sep",
     "sept", "oktober", "october", "okt", "oct", "november", "nov",
     "dezember", "december", "dez", "dec"}

\* words that are no key of the table
OtherWords == {"foo", "constructor", "uhr", "ma", "maius", "sonntag"}

LetterCases(w) == {w, Capitalised(w), toUpperCase(w)}

\* "D. <word> Y" and its variants without the dots and with a dot after the
\* word
MonthNameTexts ==
    { day \o sep \o word \o dot \o " " \o year :
        day \in {"5", "16"}, sep \in {". ", " "},
        word \in UNION {LetterCases(w) : w \in MonthKeys \cup OtherWords},
        dot \in {"", "."}, year \in {"2025"} }

\* numeric German dates D.M.YYYY
GermanDates ==
    { day \o "." \o month \o "." \o year :
        day \in {"1", "16", "05", "45"}, month \in {"5", "05", "12", "13"},
        year \in {"2025", "1999"} }

NormCores ==
    {"16.05.2025", "5.6.", "5.6.2025", "16. Mai 2025", "16 constructor 2025",
     "3 foo 2025", "free text", "", "2025-05-16T20:00", "5.6", "1.2.20255",
     "Sa 17"}

NormPrefixes == {"", "Event Name - ", "Do. ", "Sa ", "ab 1.2. "}

NormSuffixes == {"", " 20:00", " 2024", " - 3.4.2021", " 7. Juni 2023", "."}

\* the same text as an element's text holds it: with line breaks and
\* indentation around and inside it
Spread(t) == {t, " \n\t" \o t \o "\t ", "\n" \o t, "a\n\t " \o t}

NormInputs ==
    MonthNameTexts \cup GermanDates \cup
    UNION { Spread(prefix \o core \o suffix) :
              prefix \in NormPrefixes, core \in NormCores,
              suffix \in NormSuffixes }

InitNormalize ==
    /\ argText \in NormInputs
    /\ normalized = ""
    /\ returned = FALSE
    /\ now = Epoch
    /\ ExtractIdle
    /\ AggIdle
    /\ ProfileIdle
    /\ RestIdle

Normalize ==
    /\ ~returned
    /\ normalized' = extractDateFromText(argText)
    /\ returned' = TRUE
    /\ UNCHANGED <<argText, now>>
    /\ UNCHANGED extractVars
    /\ UNCHANGED aggVars
    /\ UNCHANGED profile
    /\ UNCHANGED restVars

NextNormalize == Normalize

SpecNormalize == InitNormalize /\ [][NextNormalize]_vars

\* the text the patterns of extractDateFromText are matched against
Cleaned(t) == collapseWhite(trim(t))

\* the match of the k-th pattern of extractDateFromText on the cleaned text c
PatternMatch(k, c) ==
    CASE k = 1 -> dateAtEnd(c)
      [] k = 2 -> artilleryDateMatch(c)
      [] k = 3 -> germanDateMatch(c)
      [] k = 4 -> abbrevDayMatch(c)
      [] k = 5 -> monthNameMatch(c)

\* the k-th pattern matches: for the fifth, the word is a month of the table
MatchedBy(k, m) ==
    m.found /\ (k = 5 => monthNames(m.month) # "")

Matches(k, c) == MatchedBy(k, PatternMatch(k, c))

\* the date the k-th pattern makes of its match m
DateOf(k, m) ==
    IF k = 5
    THEN m.year \o "-" \o monthNames(m.month) \o "-" \o padStart2(m.day)
    ELSE IsoOf(IF m.year = "" THEN numberToString(CurrentYear) ELSE m.year,
               m.month, m.day)

Produced(k, c) == DateOf(k, PatternMatch(k, c))

\* C11: the value returned is the one the first matching pattern produces, in
\* the order end-anchored DD.MM.YYYY, DD.MM.YYYY anywhere, DD.MM. with
\* optional year, weekday abbreviation and DD.MM., DD MonthName YYYY; a later
\* pattern decides only when no earlier one matches, and the cleaned text is
\* returned only when none matches.
C11_FirstMatchingPatternWins ==
    returned =>
        /\ \A k \in 1..5 :
              (Matches(k, Cleaned(argText))
               /\ \A j \in 1..(k - 1) : ~Matches(j, Cleaned(argText)))
              => normalized = Produced(k, Cleaned(argText))
        /\ (\A k \in 1..5 : ~Matches(k, Cleaned(argText)))
              <=> normalized = Cleaned(argText)

\* two patterns match and would produce different dates
C11_Witness ==
    /\ returned
    /\ Matches(1, Cleaned(argText))
    /\ Matches(2, Cleaned(argText))
    /\ Produced(1, Cleaned(argText)) # Produced(2, Cleaned(argText))
    /\ normalized = Produced(1, Cleaned(argText))

DotPositions(t) == {i \in 1..Len(t) : Ch(t, i) = "."}

AllDigits(t) == t # "" /\ \A i \in 1..Len(t) : IsDigit(t, i)

\* the parts of a text around its first and its last dot
DayPart(t) == Sub(t, 1, Min(DotPositions(t)) - 1)

MonthPart(t) == Sub(t, Min(DotPositions(t)) + 1, Max(DotPositions(t)) - 1)

YearPart(t) == From(t, Max(DotPositions(t)) + 1)

\* the text is D.M.YYYY: one or two digits, a dot, one or two digits, a dot,
\* four digits, and nothing else
IsGermanDate(t) ==
    /\ Cardinality(DotPositions(t)) = 2
    /\ AllDigits(DayPart(t)) /\ Len(DayPart(t)) <= 2
    /\ AllDigits(MonthPart(t)) /\ Len(MonthPart(t)) <= 2
    /\ AllDigits(YearPart(t)) /\ Len(YearPart(t)) = 4

TwoDigits(t) == IF Len(t) = 1 THEN "0" \o t ELSE t

\* C12: a text that is a numeric German date D.M.YYYY is returned as
\* YYYY-MM-DD with the same year, month and day, month and day padded with a
\* zero to two digits.
C12_GermanDateToIso ==
    (returned /\ IsGermanDate(argText)) =>
        normalized = YearPart(argText) \o "-" \o TwoDigits(MonthPart(argText))
                       \o "-" \o TwoDigits(DayPart(argText))

\* a German date with a one-digit day and a one-digit month was normalised
C12_Witness ==
    /\ returned
    /\ IsGermanDate(argText)
    /\ Len(DayPart(argText)) = 1
    /\ Len(MonthPart(argText)) = 1
    /\ Len(normalized) = 10

\* the four-digit numbers a text contains
YearsIn(t) ==
    { Sub(t, j, j + 3) : j \in { k \in 1..Len(t) :
          YearAt(t, k) /\ ~IsDigit(t, k - 1) /\ ~IsDigit(t, k + 4) } }

\* the text is D.M. and nothing else
IsDayMonth(t) == IsGermanDate(t \o "0000")

WeekdayPrefixes == {"", "Do. ", "Sa "}

\* the text is D.M., alone or after a weekday abbreviation
IsYearlessDate(t, p) == startsWith(t, p) /\ IsDayMonth(From(t, Len(p) + 1))

YearlessPart(t, p) == From(t, Len(p) + 1) \o "0000"

\* C13: the current year is substituted only when the text contains no year:
\* "DD.MM.", also after a weekday abbreviation, gives <current year>-MM-DD,
\* and when the text contains a year the date returned carries that year.
C13_CurrentYearOnlyWithoutYear ==
    returned =>
        /\ \A p \in WeekdayPrefixes :
              IsYearlessDate(Cleaned(argText), p) =>
                 normalized =
                    numberToString(CurrentYear) \o "-"
                    \o TwoDigits(MonthPart(YearlessPart(Cleaned(argText), p)))
                    \o "-"
                    \o TwoDigits(DayPart(YearlessPart(Cleaned(argText), p)))
        /\ ((\E k \in 1..5 : Matches(k, Cleaned(argText)))
            /\ YearsIn(Cleaned(argText)) # {})
              => Upto(normalized, 4) \in YearsIn(Cleaned(argText))

\* what the claim expects of "D. <word> Y", word written as cased
ExpectedOfWord(day, word, year, t) ==
    IF word \in MonthKeys
    THEN year \o "-" \o monthNames(word) \o "-" \o TwoDigits(day)
    ELSE t

\* C14: "D. <Month> Y" with a month name or abbreviation of the table in any
\* letter case is returned as Y-MM-DD, MM the table's number of the month and
\* the day padded to two digits; a word that is no key of the table yields no
\* date, the text is returned as it is.
C14_MonthNameToIso ==
    (returned /\ argText \in MonthNameTexts) =>
        \A day \in {"5", "16"}, sep \in {". ", " "}, dot \in {"", "."},
           word \in MonthKeys \cup OtherWords :
            \A cased \in LetterCases(word) :
                argText = day \o sep \o cased \o dot \o " 2025"
                   => normalized = ExpectedOfWord(day, word, "2025", argText)

\* the k-th date pattern of the normaliser matches the cleaned text c: the
\* numeric patterns by their expression, DD MonthName YYYY when the word is a
\* month name of the table
IsDateText(k, c) ==
    PatternMatch(k, c).found
    /\ (k = 5 => PatternMatch(k, c).month \in MonthKeys)

\* C15: the call returns for every text; the empty text gives the empty text,
\* and a text that none of the date patterns matches is returned cleaned and
\* otherwise unchanged.
C15_MissReturnsCleanedText ==
    returned =>
        /\ argText = "" => normalized = ""
        /\ (\A k \in 1..5 : ~IsDateText(k, Cleaned(argText)))
              => normalized = Cleaned(argText)

-----------------------------------------------------------------------------
(* scrapeEvents on either path: the page of a site, fetched as a static      *)
(* document or rendered, handed to the extractor the URL selects             *)

DispatchSites ==
    { "https://venue.example/programm",
      "https://www.treibhaus.at/programm",
      "https://www.music-hall.at/events",
      "https://artilleryproductions.bigcartel.com/",
      "https://diebaeckerei.at/programm/",
      "https://www.diebaeckerei.at/" }

DispatchContainers ==
    { Container(" \n", "16.05.2025", "/show/2", ""),
      Container("2025-05-16", "16.05.2025", "", ""),
      [Container("GIG NIGHT - 12.09.2025", "", "/product/gig", "")
         EXCEPT !.price = " 12 EUR ", !.descr = ""],
      [Container("OPEN AIR", "", "", "")
         EXCEPT !.price = "ab 13.10.2025\n15 EUR", !.descr = ""],
      [Container("Lesung", "16.05.2025", "/e/5", "")
         EXCEPT !.datetime = "2025-05-17", !.cancelled = TRUE,
                !.tags = <<" Musik ", " ", "Wort">>],
      [Container("Kino", "20.05.2025", "/e/6", "")
         EXCEPT !.datetime = "18.05.2025", !.tags = <<"Film">>] }

DispatchRecurring ==
    { Container("Yoga", "Mo. 18:00", "/yoga", ""),
      [Container("Chor", "Mo. 5.6.", "", "") EXCEPT !.datetime = "3.4."],
      Container("Tanz", " Fr.\n20:00 ", "http://", ""),
      Container("\t", "Di. 19:00", "/di", "") }

InitDispatch ==
    /\ url \in DispatchSites
    /\ doc \in DocsOf(url, DispatchContainers, DispatchRecurring)
    /\ events = <<>>
    /\ phase = "loaded"
    /\ \E useJsRendering \in BOOLEAN :
          rendered = UsesPuppeteer(url, useJsRendering)
    /\ now = Epoch
    /\ AggIdle
    /\ NormIdle
    /\ ProfileIdle
    /\ RestIdle

SpecDispatch == InitDispatch /\ [][NextExtract]_vars

\* the extractor the claim names for the URL u
ExtractorOfClaim(u) ==
    CASE includes(u, ArtilleryId) -> "artillery"
      [] includes(u, BaeckereiId) -> "baeckerei"
      [] OTHER -> "generic"

\* the events with the clock reading taken out of their ids
WithoutClock(evs) ==
    [j \in DOMAIN evs |->
        [evs[j] EXCEPT !.id = IdPrefix(evs[j].id) \o "-"
                               \o numberToString(IdIndex(evs[j].id))]]

\* C16: the catalog extractor is used for a URL with the catalog identifier,
\* the dual-section extractor for one with the dual-section identifier, the
\* generic extractor with the URL's registry profile otherwise, on the static
\* path and on the rendered path alike: the events returned are those of
\* that extractor, whatever the clock read in their ids; a page without a
\* matching container gives the empty list.
C16_ExtractorByIdentifier ==
    phase = "extracted" =>
        /\ WithoutClock(events)
              = WithoutClock(ExtractWith(ExtractorOfClaim(url),
                                 getSelectorsForSite(url), url, doc,
                                 [k \in 1..NumContainers(doc) |-> Epoch]))
        /\ NumContainers(doc) = 0 => events = <<>>

\* the catalog page was extracted on the rendered path, by the catalog
\* extractor
C16_Witness ==
    /\ phase = "extracted"
    /\ rendered
    /\ includes(url, ArtilleryId)
    /\ events # <<>>
    /\ \A i \in DOMAIN events : events[i].venue = "Artillery Productions"

-----------------------------------------------------------------------------
(* The registry called on its own: one call of getSelectorsForSite on a URL  *)
(* drawn from ProfileUrls; trigger-scrape passes the url query parameter on, *)
(* so any text can arrive                                                    *)

\* the identifiers of the if chain of getSelectorsForSite, in its order, with
\* the venue of the profile returned for each
Registry ==
    << [id |-> "treibhaus.at", venue |-> "Treibhaus Innsbruck"],
       [id |-> "pmk.or.at", venue |-> "PMK Innsbruck"],
       [id |-> ArtilleryId, venue |-> "Artillery Productions"],
       [id |-> "music-hall.at", venue |-> "Music Hall Innsbruck"],
       [id |-> BaeckereiId, venue |-> "Die Bäckerei"] >>

ProfileHosts ==
    {Registry[i].id : i \in DOMAIN Registry} \cup {"venue.example", ""}

ProfileUrls ==
    { scheme \o host \o path :
        scheme \in {"https://", "https://www.", "http://", ""},
        host \in ProfileHosts,
        path \in {"", "/programm"}
                 \cup {"/?ref=" \o Registry[i].id : i \in DOMAIN Registry} }
    \cup {"https://TREIBHAUS.AT/", "not a url", "treibhaus", "pmk.or.at.evil"}

InitProfile ==
    /\ url \in ProfileUrls
    /\ doc = NoDoc /\ events = <<>> /\ phase = "idle" /\ rendered = FALSE
    /\ profile = NoProfile
    /\ now = Epoch
    /\ AggIdle
    /\ NormIdle
    /\ RestIdle

ProfileFor ==
    /\ profile = NoProfile
    /\ profile' = getSelectorsForSite(url)
    /\ UNCHANGED <<now>>
    /\ UNCHANGED extractVars
    /\ UNCHANGED aggVars
    /\ UNCHANGED normVars
    /\ UNCHANGED restVars

NextProfile == ProfileFor

SpecProfile == InitProfile /\ [][NextProfile]_vars

\* the registry entries whose identifier occurs in the URL u
MatchingEntries(u) == {i \in DOMAIN Registry : includes(u, Registry[i].id)}

\* a profile the extractors can work with: a container selector and a venue
IsUsable(p) == p.eventContainer # "" /\ p.venue # ""

\* the profile is that of the first matching entry, the generic one when no
\* entry matches
IsFirstMatch(p, u) ==
    IF MatchingEntries(u) = {} THEN p.venue = "Unknown Venue"
    ELSE p.venue = Registry[Min(MatchingEntries(u))].venue

\* the profile is that of an entry with the longest matching identifier
IsLongestMatch(p, u) ==
    \E i \in MatchingEntries(u) :
        /\ p.venue = Registry[i].venue
        /\ \A j \in MatchingEntries(u) :
              Len(Registry[j].id) <= Len(Registry[i].id)

\* C17 as stated: the profile returned is usable; it is that of the first
\* entry of the registry whose identifier occurs in the URL, which is the
\* longest matching identifier, and the generic "Unknown Venue" profile when
\* none occurs.
C17_FirstAndLongestMatch ==
    profile # NoProfile =>
        /\ IsUsable(profile)
        /\ IsFirstMatch(profile, url)
        /\ MatchingEntries(url) # {} => IsLongestMatch(profile, url)

\* C17 amended: the profile returned is usable; it is that of the first entry
\* of the registry, in its fixed order, whose identifier occurs in the URL,
\* whatever the length of the identifier, and the generic "Unknown Venue"
\* profile when none occurs.
C17_FirstMatchInOrder ==
    profile # NoProfile =>
        /\ IsUsable(profile)
        /\ IsFirstMatch(profile, url)

\* a URL in which two identifiers occur got the profile of the earlier entry,
\* the one with the shorter identifier
C17_Witness ==
    /\ profile # NoProfile
    /\ Cardinality(MatchingEntries(url)) = 2
    /\ profile.venue = Registry[Min(MatchingEntries(url))].venue
    /\ ~IsLongestMatch(profile, url)

\* the date of the catalog extractor's expression in the title, "" without
DateInTitle(title) ==
    IF Matches(2, title) THEN Produced(2, title) ELSE ""

CatalogPage == phase = "extracted" /\ includes(url, ArtilleryId)

\* C18: for a catalog product with a non-empty title the event's date comes
\* from the title only ("GIG NIGHT - 12.09.2025" gives "2025-09-12", a title
\* without a date gives no date), never from the price text, and the
\* description contains the price text whenever there is a price.
C18_DateFromTitleOnly ==
    CatalogPage =>
        /\ \A k \in 1..Len(doc.containers) :
              (cleanText(doc.containers[k].title) # ""
               /\ ~LinkThrows(doc.containers[k], url))
                 => EventsOfContainer(k) # {}
        /\ \A j \in 1..Len(events) :
              /\ events[j].date = DateInTitle(cleanText(SourceOf(events[j]).title))
              /\ cleanText(SourceOf(events[j]).price) # ""
                    => includes(events[j].description,
                                cleanText(SourceOf(events[j]).price))

\* a catalog page with the product "GIG NIGHT - 12.09.2025" and with a
\* product that has a date in its price text only
C18_Witness ==
    /\ CatalogPage
    /\ \E j \in 1..Len(events) :
          /\ events[j].title = "GIG NIGHT - 12.09.2025"
          /\ events[j].date = "2025-09-12"
          /\ events[j].description = "Price: 12 EUR"
    /\ \E j \in 1..Len(events) :
          /\ germanDateMatch(cleanText(SourceOf(events[j]).price)).found
          /\ events[j].date = ""

DualSectionPage == phase = "extracted" /\ includes(url, BaeckereiId)

CancelMarker == "[CANCELLED] "

\* the events of the one-off pass
OneOffEvents == {j \in 1..Len(events) : IdPrefix(events[j].id) = "event"}

\* the description of a one-off event before the marker is applied: the
\* excerpt, with the line of the tags when the container has tags
TaggedDescription(c) ==
    IF \E i \in DOMAIN c.tags : cleanText(c.tags[i]) # ""
    THEN cleanText(c.descr) \o "\n\nCategories: " \o JoinTags(CleanTags(c.tags))
    ELSE cleanText(c.descr)

\* C19: in the one-off pass an event of a container with the cancelled class
\* has the cancellation marker before its title and before its description,
\* also when the tags were appended to the description; an event of a
\* container without that class has the marker before neither.
C19_CancelledMarksTitleAndDescription ==
    DualSectionPage =>
        \A j \in OneOffEvents :
            IF SourceOf(events[j]).cancelled
            THEN /\ events[j].title
                       = CancelMarker \o cleanText(SourceOf(events[j]).title)
                 /\ events[j].description
                       = CancelMarker \o TaggedDescription(SourceOf(events[j]))
            ELSE /\ events[j].title = cleanText(SourceOf(events[j]).title)
                 /\ events[j].description
                       = TaggedDescription(SourceOf(events[j]))

\* a cancelled event with tags and an event that is not cancelled, on one page
C19_Witness ==
    /\ DualSectionPage
    /\ \E j \in OneOffEvents :
          /\ SourceOf(events[j]).cancelled
          /\ CleanTags(SourceOf(events[j]).tags) # <<>>
          /\ startsWith(events[j].description, CancelMarker)
          /\ includes(events[j].description, "Categories: Musik, Wort")
    /\ \E j \in OneOffEvents :
          /\ ~SourceOf(events[j]).cancelled
          /\ ~startsWith(events[j].title, CancelMarker)

\* C20: in both passes of the dual-section extractor a non-empty datetime
\* attribute of the date element decides the event's date, whatever the
\* visible date text is; the visible text decides only when the attribute is
\* absent or empty.
C20_DatetimeAttributeFirst ==
    DualSectionPage =>
        \A j \in 1..Len(events) :
            IF SourceOf(events[j]).datetime # ""
            THEN events[j].date
                    = extractDateFromText(SourceOf(events[j]).datetime)
            ELSE events[j].date
                    = extractDateFromText(cleanText(SourceOf(events[j]).date))

\* in each pass an event whose attribute and visible text give different
\* dates, and in the one-off pass an event without the attribute
C20_Witness ==
    /\ DualSectionPage
    /\ \E j \in OneOffEvents :
          /\ SourceOf(events[j]).datetime # ""
          /\ extractDateFromText(cleanText(SourceOf(events[j]).date))
                # events[j].date
    /\ \E j \in 1..Len(events) :
          /\ IdPrefix(events[j].id) = "recurring-event"
          /\ SourceOf(events[j]).datetime # ""
          /\ extractDateFromText(cleanText(SourceOf(events[j]).date))
                # events[j].date

RecurringMarker == "[Recurring] "

\* the events of the recurring pass
RecurringEvents ==
    {j \in 1..Len(events) : IdPrefix(events[j].id) = "recurring-event"}

\* the list is the one-off events in document order, then the recurring
\* events in document order
OneOffThenRecurring ==
    /\ \A i \in OneOffEvents : \A j \in RecurringEvents : i < j
    /\ \A i \in OneOffEvents : \A j \in OneOffEvents :
          i < j => IdIndex(events[i].id) < IdIndex(events[j].id)
    /\ \A i \in RecurringEvents : \A j \in RecurringEvents :
          i < j => IdIndex(events[i].id) < IdIndex(events[j].id)

\* the k-th recurring container made exactly one event, with the marker
\* before its cleaned title and the synthesized description
OneRecurringEventOf(k) ==
    /\ Cardinality(EventsOfRecurring(k)) = 1
    /\ \A j \in EventsOfRecurring(k) :
          /\ events[j].title
                = RecurringMarker \o cleanText(doc.recurring[k].title)
          /\ events[j].description
                = "This is a recurring event at Die Bäckerei. Time: "
                     \o cleanText(doc.recurring[k].date)

\* C21 as stated: the dual-section extractor returns the one-off events in
\* document order followed by the recurring events in document order, and
\* every recurring container with a non-empty title yields exactly one event,
\* its title the recurring marker and the cleaned title, its description
\* made from the recurrence time text.
C21_EveryTitledRecurringEmitted ==
    DualSectionPage =>
        /\ OneOffThenRecurring
        /\ \A k \in 1..Len(doc.recurring) :
              cleanText(doc.recurring[k].title) # "" => OneRecurringEventOf(k)

\* C21 amended: as above for every recurring container with a non-empty title
\* whose link and image address resolve against the page URL; a recurring
\* container without a title or with an address that does not resolve yields
\* no event.
C21_ResolvableTitledRecurringEmitted ==
    DualSectionPage =>
        /\ OneOffThenRecurring
        /\ \A k \in 1..Len(doc.recurring) :
              IF cleanText(doc.recurring[k].title) # ""
                 /\ ~LinkThrows(doc.recurring[k], url)
              THEN OneRecurringEventOf(k)
              ELSE EventsOfRecurring(k) = {}

\* a page with a recurring event and a titled recurring container whose link
\* does not resolve
C21_Witness ==
    /\ DualSectionPage
    /\ RecurringEvents # {}
    /\ \E k \in 1..Len(doc.recurring) :
          /\ cleanText(doc.recurring[k].title) # ""
          /\ LinkThrows(doc.recurring[k], url)
          /\ EventsOfRecurring(k) = {}

GenericPageExtracted ==
    phase = "extracted" /\ ExtractorOfClaim(url) = "generic"

\* the text the generic extractor normalises for the container c
DateSourceOf(c) ==
    IF cleanText(c.date) # "" THEN cleanText(c.date) ELSE cleanText(c.title)

\* C22: the date of every event the generic extractor keeps is the normalised
\* date text when the cleaned date text is non-empty and the normalised title
\* when it is empty, whatever the title is; a date text that normalises to
\* YYYY-MM-DD is emitted in that form.
C22_DateIsNormalisedSource ==
    GenericPageExtracted =>
        \A j \in 1..Len(events) :
            events[j].date
               = extractDateFromText(DateSourceOf(SourceOf(events[j])))

-----------------------------------------------------------------------------
(* scrapeWithPuppeteer as a process: the browser it launches and the        *)
(* try / catch / finally block around every step                            *)

\* the containers the rendered page may hold
BrowserContainers ==
    { Container("GIG NIGHT - 12.09.2025", "", "/product/gig", " 12 EUR "),
      Container("Kino", "20.05.2025", "/e/6", "") }

BrowserRecurring == { Container("Yoga", "Mo. 18:00", "/yoga", "") }

\* the sites whose page is waited for after the navigation
WaitsForSelector(u) == includes(u, BaeckereiId) \/ includes(u, "music-hall.at")

\* a finally block that closes nothing
AfterFinallyLeftOpen(b) == b

\* the finally block: `if (browser) { await browser.close(); }`
AfterFinally(b) == IF b = "open" THEN "closed" ELSE b

InitBrowser ==
    /\ url \in DispatchSites
    /\ doc = NoDoc /\ events = <<>> /\ phase = "idle" /\ rendered = TRUE
    /\ browser = "null" /\ bpc = "launch" /\ settledAs = "pending"
    /\ RequestIdle
    /\ ClientIdle
    /\ now = Epoch
    /\ AggIdle
    /\ NormIdle
    /\ ProfileIdle

\* a step of the rendered-DOM scraper leaves everything else alone
BrowserFrame ==
    /\ UNCHANGED <<url, phase, rendered>>
    /\ UNCHANGED aggVars
    /\ UNCHANGED normVars
    /\ UNCHANGED profile
    /\ UNCHANGED requestVars
    /\ UNCHANGED clientVars

\* `browser = await puppeteer.launch(...)` resolves
LaunchSucceeds ==
    /\ bpc = "launch"
    /\ browser' = "open"
    /\ bpc' = "page"
    /\ UNCHANGED <<doc, events, now, settledAs>>
    /\ BrowserFrame

\* chromium.executablePath() or puppeteer.launch() rejects: browser stays null
LaunchFails ==
    /\ bpc = "launch"
    /\ bpc' = "catch"
    /\ UNCHANGED <<doc, events, now, settledAs, browser>>
    /\ BrowserFrame

\* newPage, setRequestInterception and setUserAgent resolve
PageOpens ==
    /\ bpc = "page"
    /\ bpc' = "goto"
    /\ UNCHANGED <<doc, events, now, settledAs, browser>>
    /\ BrowserFrame

\* one of newPage, setRequestInterception, setUserAgent rejects
PageFails ==
    /\ bpc = "page"
    /\ bpc' = "catch"
    /\ UNCHANGED <<doc, events, now, settledAs, browser>>
    /\ BrowserFrame

\* page.goto resolves within its 8 s
GotoSucceeds ==
    /\ bpc = "goto"
    /\ bpc' = IF WaitsForSelector(url) THEN "wait" ELSE "content"
    /\ UNCHANGED <<doc, events, now, settledAs, browser>>
    /\ BrowserFrame

\* page.goto rejects: navigation error or timeout
GotoFails ==
    /\ bpc = "goto"
    /\ bpc' = "catch"
    /\ UNCHANGED <<doc, events, now, settledAs, browser>>
    /\ BrowserFrame

\* the site-specific wait ends: the selector appears (and autoScroll ends),
\* or the wait times out and the inner catch logs it
WaitEnds ==
    /\ bpc = "wait"
    /\ bpc' = "content"
    /\ UNCHANGED <<doc, events, now, settledAs, browser>>
    /\ BrowserFrame

\* page.content() resolves with the rendered page
ContentRead ==
    /\ bpc = "content"
    /\ doc' \in DocsOf(url, BrowserContainers, BrowserRecurring)
    /\ bpc' = "extract"
    /\ UNCHANGED <<events, now, settledAs, browser>>
    /\ BrowserFrame

\* page.content() rejects
ContentFails ==
    /\ bpc = "content"
    /\ bpc' = "catch"
    /\ UNCHANGED <<doc, events, now, settledAs, browser>>
    /\ BrowserFrame

\* the return statement of the artillery, baeckerei or generic extraction
Returns ==
    /\ bpc = "extract"
    /\ \E ts \in Clocks(now, NumContainers(doc)) :
          /\ events' = scrapeWithPuppeteer(url, doc, ts)
          /\ now' = LastClock(now, ts)
    /\ bpc' = "finallyReturn"
    /\ UNCHANGED <<doc, settledAs, browser>>
    /\ BrowserFrame

\* catch (error) { console.error(...); throw error; }
Rethrows ==
    /\ bpc = "catch"
    /\ bpc' = "finallyThrow"
    /\ UNCHANGED <<doc, events, now, settledAs, browser>>
    /\ BrowserFrame

\* the finally block runs, then the promise of the call settles
Finally ==
    /\ bpc \in {"finallyReturn", "finallyThrow"}
    /\ browser' = AfterFinally(browser)
    /\ settledAs' = IF bpc = "finallyReturn" THEN "fulfilled" ELSE "rejected"
    /\ bpc' = "done"
    /\ UNCHANGED <<doc, events, now>>
    /\ BrowserFrame

NextBrowser ==
    \/ LaunchSucceeds
    \/ LaunchFails
    \/ PageOpens
    \/ PageFails
    \/ GotoSucceeds
    \/ GotoFails
    \/ WaitEnds
    \/ ContentRead
    \/ ContentFails
    \/ Returns
    \/ Rethrows
    \/ Finally

SpecBrowser == InitBrowser /\ [][NextBrowser]_vars

\* the call has launched a browser
Launched == browser # "null"

\* C23: when the call of the rendered-DOM scraper has settled, fulfilled or
\* rejected, a browser it launched is closed: no exit path of the call
\* leaves a launched browser open.
C23_BrowserClosedWhenSettled ==
    settledAs # "pending" => (Launched => browser = "closed")

\* a call that launched a browser and was rejected, e.g. by a navigation
\* timeout, with the browser closed
C23_Witness ==
    /\ settledAs = "rejected"
    /\ browser = "closed"

-----------------------------------------------------------------------------
(* The three handlers from the request on: the OPTIONS answer, the test     *)
(* mode and the cache of get-events, the authorisation and the single-URL   *)
(* path of trigger-scrape, and a store that an earlier run has written      *)

\* the list an earlier get-events run stored: one event of the first site
EarlierEvents ==
    ExtractEvents(SequentialSites[1],
                  [NoDoc EXCEPT !.containers =
                      <<Container("Show", "16.05.2025", "/show/1", "")>>],
                  <<Epoch>>)

\* the store when the request arrives: no file yet, or the file of an
\* earlier run
StoredBefore == { <<>>, EarlierEvents }

\* getStoredEvents(): the events of the file, [] when there is no file
getStoredEvents(stored) == stored

\* process.env.TRIGGER_SECRET
Secrets == {"", "s3cret"}

\* event.headers.authorization
Authorizations == {"", "Bearer s3cret", "Bearer s3cre", "s3cret"}

\* event.queryStringParameters.url of trigger-scrape
UrlParams == {"", SequentialSites[1]}

\* the requests a handler reads: get-events its method and the refresh and
\* test parameters, trigger-scrape its method, the url parameter and the
\* Authorization header; scheduled-scrape is run by the schedule
RequestsOf(h) ==
    CASE h = "get-events" ->
            { [NoRequest EXCEPT !.httpMethod = m, !.refresh = r, !.test = t] :
                m \in {"GET", "OPTIONS"}, r \in BOOLEAN, t \in BOOLEAN }
      [] h = "trigger-scrape" ->
            { [NoRequest EXCEPT !.httpMethod = m, !.url = u,
                                !.authorization = a] :
                m \in {"POST", "OPTIONS"}, u \in UrlParams,
                a \in Authorizations }
      [] OTHER -> {NoRequest}

\* mutant: any bearer token passes
IsAuthorizedAnyBearer(sec, auth) ==
    sec = "" \/ (Len(auth) >= 7 /\ SubSeq(auth, 1, 7) = "Bearer ")

\* the negation of
\* TRIGGER_SECRET && (!authToken || authToken !== `Bearer ${TRIGGER_SECRET}`)
IsAuthorized(sec, auth) ==
    sec = "" \/ (auth # "" /\ auth = "Bearer " \o sec)

\* the answer to an OPTIONS request
OptionsResponse == [NoResponse EXCEPT !.statusCode = 200]

\* the 401 of trigger-scrape
UnauthorizedResponse ==
    [NoResponse EXCEPT !.statusCode = 401, !.error = "Unauthorized"]

\* get-events in test mode
TestResponse ==
    [NoResponse EXCEPT !.statusCode = 200,
        !.events = SampleEvents(Today, Tomorrow, NextWeek),
        !.mode = "test", !.success = "true", !.fromCache = "false"]

\* mutant: the cached answer carries fresh sample events
CachedResponseSample(evs) ==
    [TestResponse EXCEPT !.mode = "cached", !.fromCache = "true"]

\* get-events answering from the store
CachedResponse(evs) ==
    [NoResponse EXCEPT !.statusCode = 200, !.events = evs,
        !.mode = "cached", !.success = "true", !.fromCache = "true"]

\* trigger-scrape after scraping and storing the URL it was given
SingleResponse(evs, u) ==
    [NoResponse EXCEPT !.statusCode = 200, !.success = "true",
        !.message = "Scraped and stored " \o numberToString(Len(evs))
            \o " events from " \o u]

\* the outer catch of trigger-scrape
TriggerErrorResponse(thrown) ==
    [ErrorResponse(thrown) EXCEPT !.success = "false"]

InitServe ==
    /\ handler \in Handlers
    /\ request \in RequestsOf(handler)
    /\ secret \in IF handler = "trigger-scrape" THEN Secrets ELSE {""}
    /\ store \in StoredBefore
    /\ task = <<>> /\ results = <<>> /\ errors = <<>> /\ allEvents = <<>>
    /\ pc = "request"
    /\ response = NoResponse
    /\ now = Epoch + MaxTick
    /\ ExtractIdle
    /\ NormIdle
    /\ ProfileIdle
    /\ BrowserIdle
    /\ ClientIdle

\* a step of a handler leaves the request, the secret and the other parts
\* alone
ServeFrame ==
    /\ UNCHANGED <<handler, errors, now>>
    /\ UNCHANGED extractVars
    /\ UNCHANGED normVars
    /\ UNCHANGED profile
    /\ UNCHANGED restVars

\* the handler returns at once
Answer(r) ==
    /\ response' = r
    /\ pc' = "done"
    /\ UNCHANGED <<task, results, allEvents, store>>

\* the handler goes on to scrape its target sites
StartScraping ==
    /\ task' = [i \in 1..Len(targetSites(handler)) |-> Pending]
    /\ results' = IF IsParallel(handler)
                  THEN [i \in 1..Len(targetSites(handler)) |-> Unsettled]
                  ELSE <<>>
    /\ pc' = "scraping"
    /\ UNCHANGED <<response, allEvents, store>>

\* get-events up to its first scrapeEvents call
GetEventsReceives ==
    /\ pc = "request"
    /\ handler = "get-events"
    /\ IF request.httpMethod = "OPTIONS" THEN Answer(OptionsResponse)
       ELSE IF ~request.refresh /\ request.test THEN Answer(TestResponse)
       ELSE IF ~request.refresh /\ Len(getStoredEvents(store)) > 0
            THEN Answer(CachedResponse(getStoredEvents(store)))
       ELSE StartScraping
    /\ ServeFrame

\* trigger-scrape up to its first scrapeEvents call
TriggerReceives ==
    /\ pc = "request"
    /\ handler = "trigger-scrape"
    /\ IF request.httpMethod = "OPTIONS" THEN Answer(OptionsResponse)
       ELSE IF ~IsAuthorized(secret, request.authorization)
            THEN Answer(UnauthorizedResponse)
       ELSE IF request.url # ""
            THEN /\ task' = <<Pending>>
                 /\ pc' = "single"
                 /\ UNCHANGED <<response, results, allEvents, store>>
       ELSE StartScraping
    /\ ServeFrame

\* the schedule runs scheduled-scrape
ScheduleFires ==
    /\ pc = "request"
    /\ handler = "scheduled-scrape"
    /\ StartScraping
    /\ ServeFrame

\* trigger-scrape with a url parameter: scrapeEvents(targetUrl) resolves
SingleFulfils ==
    /\ pc = "single"
    /\ \E d \in AggPages(request.url) :
          \E ts \in Clocks(now, NumContainers(d)) :
              /\ allEvents' = ExtractEvents(request.url, d, ts)
              /\ task' = <<Fulfilled(ExtractEvents(request.url, d, ts))>>
              /\ now' = LastClock(now, ts)
    /\ pc' = "storingSingle"
    /\ UNCHANGED <<handler, errors, results, store, response>>
    /\ UNCHANGED extractVars
    /\ UNCHANGED normVars
    /\ UNCHANGED profile
    /\ UNCHANGED restVars

\* scrapeEvents(targetUrl) rejects: the outer catch answers 500
SingleRejects ==
    /\ pc = "single"
    /\ \E thrown \in Throwables :
          /\ task' = <<Rejected(thrown)>>
          /\ response' = TriggerErrorResponse(thrown)
    /\ pc' = "done"
    /\ UNCHANGED <<results, allEvents, store>>
    /\ ServeFrame

\* `await storeEvents(events)` of the single-URL path wrote the file
SingleStoreSucceeds ==
    /\ pc = "storingSingle"
    /\ store' = allEvents
    /\ response' = SingleResponse(allEvents, request.url)
    /\ pc' = "done"
    /\ UNCHANGED <<task, results, allEvents>>
    /\ ServeFrame

\* `await storeEvents(events)` of the single-URL path threw
SingleStoreFails ==
    /\ pc = "storingSingle"
    /\ response' = TriggerErrorResponse(StoreError)
    /\ pc' = "done"
    /\ UNCHANGED <<task, results, allEvents, store>>
    /\ ServeFrame

NextServe ==
    \/ GetEventsReceives
    \/ TriggerReceives
    \/ ScheduleFires
    \/ SingleFulfils
    \/ SingleRejects
    \/ SingleStoreSucceeds
    \/ SingleStoreFails
    \/ NextAgg

SpecServe == InitServe /\ [][NextServe]_vars

\* get-events has answered a request that is no OPTIONS request
GetEventsAnswered ==
    /\ handler = "get-events"
    /\ request.httpMethod # "OPTIONS"
    /\ pc = "done"

\* C24: whatever the query parameters, the store, the outcome of each site
\* and of the store write, get-events answers a request that is no OPTIONS
\* request with status 200, success = true and a non-empty events array, and
\* fromCache is true only when the events returned are the stored ones.
C24_GetEventsAlwaysAnswersEvents ==
    GetEventsAnswered =>
        /\ response.statusCode = 200
        /\ response.success = "true"
        /\ response.events # <<>>
        /\ response.fromCache \in {"true", "false"}
        /\ response.fromCache = "true" =>
              response.events = getStoredEvents(store)

\* get-events answered from the store
C24_Witness ==
    /\ GetEventsAnswered
    /\ response.fromCache = "true"
    /\ response.events = EarlierEvents

\* the ids of the sample events
SampleIds == {"sample-1", "sample-2", "sample-3"}

\* C25: a store that holds a non-empty list is replaced only by another
\* non-empty list, and sample events are never written to the store.
C25_NonEmptyStoreStaysNonEmpty ==
    [][/\ store # <<>> => store' # <<>>
       /\ \A j \in 1..Len(store') : store'[j].id \notin SampleIds]_vars

\* a request to trigger-scrape, no OPTIONS request, that does not carry the
\* bearer token of the configured secret
UnauthorizedRequest ==
    /\ handler = "trigger-scrape"
    /\ request.httpMethod # "OPTIONS"
    /\ secret # ""
    /\ request.authorization # "Bearer " \o secret

\* C26: with a secret configured, a request to trigger-scrape whose
\* Authorization header is missing or differs from "Bearer <secret>" is
\* answered with 401, and no scrape is started and the store is not written.
C26_UnauthorizedNeverScrapes ==
    [][UnauthorizedRequest =>
          /\ response'.statusCode = 401
          /\ pc' = "done"
          /\ task' = <<>>
          /\ allEvents' = <<>>
          /\ store' = store]_vars

\* a request with a bearer token one character short of the secret, and one
\* without a header, were answered with 401
C26_Witness ==
    /\ UnauthorizedRequest
    /\ request.authorization \in {"Bearer s3cre", ""}
    /\ request.url # ""
    /\ store # <<>>
    /\ response = UnauthorizedResponse

-----------------------------------------------------------------------------
(* EventService.getEvents: the localStorage cache of the client             *)

\* private static CACHE_DURATION = 5 * 60 * 1000, in milliseconds
CACHE_DURATION == 300000

\* an item JSON.parse rejects
Garbage == [kind |-> "garbage", data |-> <<>>, timestamp |-> 0]

\* the item saveToCache writes: JSON.stringify({data, timestamp}); the events
\* come out of response.json(), so JSON.parse gives them back unchanged
Entry(evs, t) == [kind |-> "entry", data |-> evs, timestamp |-> t]

\* mutant: the age of the entry is never looked at
getFromCacheAnyAge(item, ignoreExpiration, t) ==
    IF item.kind = "entry"
    THEN [found |-> TRUE, data |-> item.data]
    ELSE [found |-> FALSE, data |-> <<>>]

\* mutant: an expired entry is never returned
getFromCacheFreshOnly(item, ignoreExpiration, t) ==
    IF item.kind = "entry" /\ t - item.timestamp < CACHE_DURATION
    THEN [found |-> TRUE, data |-> item.data]
    ELSE [found |-> FALSE, data |-> <<>>]

\* the value getFromCache(ignoreExpiration) returns at time t; found = FALSE
\* stands for null
getFromCache(item, ignoreExpiration, t) ==
    IF /\ item.kind = "entry"
       /\ ignoreExpiration \/ t - item.timestamp < CACHE_DURATION
    THEN [found |-> TRUE, data |-> item.data]
    ELSE [found |-> FALSE, data |-> <<>>]

\* the item after getFromCache: the catch removes what JSON.parse rejects
AfterGetFromCache(item) == IF item.kind = "garbage" THEN NoItem ELSE item

\* saveToCache(data) at time t
saveToCache(evs, t) == Entry(evs, t)

\* the event lists the API answers with
Payloads == { <<>>, EarlierEvents, SampleEvents(Today, Tomorrow, NextWeek) }

\* how a request settles: fetch rejects; a status that is not OK; a body
\* response.json() rejects; success false; no events; events that are no
\* array; an events array
Replies ==
    { [NoReply EXCEPT !.settled = "rejected"],
      [NoReply EXCEPT !.settled = "fulfilled"],
      [NoReply EXCEPT !.settled = "fulfilled", !.ok = TRUE,
                      !.json = "invalid"],
      [NoReply EXCEPT !.settled = "fulfilled", !.ok = TRUE, !.json = "valid"],
      [NoReply EXCEPT !.settled = "fulfilled", !.ok = TRUE, !.json = "valid",
                      !.success = TRUE],
      [NoReply EXCEPT !.settled = "fulfilled", !.ok = TRUE, !.json = "valid",
                      !.success = TRUE, !.events = "invalid"] }
    \cup { [NoReply EXCEPT !.settled = "fulfilled", !.ok = TRUE,
                           !.json = "valid", !.success = TRUE,
                           !.events = "array", !.list = evs] :
              evs \in Payloads }

\* the try block of getEvents reaches saveToCache
Accepted(r) ==
    /\ r.settled = "fulfilled"
    /\ r.ok
    /\ r.json = "valid"
    /\ r.success
    /\ r.events = "array"

\* getEvents up to `await fetch(url)`: the cached events, or the request
GetEventsFirst(forceRefresh, item, t) ==
    IF ~forceRefresh /\ getFromCache(item, FALSE, t).found
    THEN [pc |-> "returned", result |-> getFromCache(item, FALSE, t).data,
          item |-> item]
    ELSE [pc |-> "fetching", result |-> <<>>,
          item |-> IF forceRefresh THEN item ELSE AfterGetFromCache(item)]

\* getEvents from the reply r on, at time t: save and return the events, or
\* in the catch return the cached events whatever their age, or throw
GetEventsAfter(r, item, t) ==
    IF Accepted(r)
    THEN [pc |-> "returned", result |-> r.list, item |-> saveToCache(r.list, t)]
    ELSE IF getFromCache(item, TRUE, t).found
    THEN [pc |-> "returned", result |-> getFromCache(item, TRUE, t).data,
          item |-> item]
    ELSE [pc |-> "threw", result |-> <<>>, item |-> AfterGetFromCache(item)]

\* the time of the call
StartWall == CACHE_DURATION + Epoch

\* the item when getEvents is called: none, one JSON.parse rejects, or an
\* entry saved just now, just under 5 minutes ago, 5 minutes ago or longer ago
CachedBefore ==
    { NoItem, Garbage }
    \cup { Entry(evs, t) :
             evs \in { <<>>, EarlierEvents },
             t \in { StartWall, StartWall - CACHE_DURATION + 1,
                     StartWall - CACHE_DURATION, Epoch - 1 } }

InitCache ==
    /\ cache \in CachedBefore
    /\ wall = StartWall
    /\ svc \in { [NoCall EXCEPT !.pc = "called", !.forceRefresh = f] :
                    f \in BOOLEAN }
    /\ calls = <<>>
    /\ eventsState = initialState
    /\ now = Epoch
    /\ ExtractIdle
    /\ AggIdle
    /\ NormIdle
    /\ ProfileIdle
    /\ BrowserIdle
    /\ RequestIdle

\* a step of the client leaves the server side alone
ClientFrame ==
    /\ UNCHANGED now
    /\ UNCHANGED extractVars
    /\ UNCHANGED aggVars
    /\ UNCHANGED normVars
    /\ UNCHANGED profile
    /\ UNCHANGED browserVars
    /\ UNCHANGED requestVars

\* getEvents runs up to its return of the cached events or to the request
CheckCache ==
    /\ svc.pc = "called"
    /\ svc' = [svc EXCEPT
                  !.pc = GetEventsFirst(svc.forceRefresh, cache, wall).pc,
                  !.result = GetEventsFirst(svc.forceRefresh, cache, wall).result,
                  !.requested =
                      GetEventsFirst(svc.forceRefresh, cache, wall).pc = "fetching"]
    /\ cache' = GetEventsFirst(svc.forceRefresh, cache, wall).item
    /\ UNCHANGED <<wall, calls, eventsState>>
    /\ ClientFrame

\* the request settles with the reply r after e milliseconds
ReplySettles ==
    /\ svc.pc = "fetching"
    /\ \E r \in Replies, e \in 0..MaxTick :
          /\ wall' = wall + e
          /\ svc' = [svc EXCEPT
                        !.pc = GetEventsAfter(r, cache, wall + e).pc,
                        !.result = GetEventsAfter(r, cache, wall + e).result,
                        !.reply = r]
          /\ cache' = GetEventsAfter(r, cache, wall + e).item
    /\ UNCHANGED <<calls, eventsState>>
    /\ ClientFrame

NextCache ==
    \/ CheckCache
    \/ ReplySettles

SpecCache == InitCache /\ [][NextCache]_vars

\* the item is an entry saved less than 5 minutes before t
FreshEntry(item, t) ==
    item.kind = "entry" /\ t - item.timestamp < CACHE_DURATION

RequestFailed(r) ==
    \/ r.settled = "rejected"
    \/ ~r.ok
    \/ r.json # "valid"
    \/ ~r.success
    \/ r.events # "array"

\* C28: when the request fails, the call returns the cached events whatever
\* their age if there is a parseable entry, and leaves the cache as it is;
\* it throws only when there is no parseable entry, and an unparseable item
\* is then removed.
C28_FailedRequestFallsBack ==
    [][(svc.pc = "fetching" /\ RequestFailed(svc'.reply)) =>
          IF cache.kind = "entry"
          THEN /\ svc'.pc = "returned"
               /\ svc'.result = cache.data
               /\ cache' = cache
          ELSE /\ svc'.pc = "threw"
               /\ cache' = NoItem]_vars

\* a forced refresh failed and the call returned events saved long ago
C28_Witness ==
    /\ svc.pc = "returned"
    /\ svc.forceRefresh
    /\ RequestFailed(svc.reply)
    /\ svc.reply.settled = "fulfilled"
    /\ svc.result = EarlierEvents
    /\ cache.timestamp = Epoch - 1

-----------------------------------------------------------------------------
(* The events context: eventsReducer and the calls of fetchEvents and       *)
(* triggerUpdate, which may overlap                                         *)

\* who calls: the effect of EventsProvider (on mount and every 5 minutes)
\* calls fetchEvents(); the page calls fetchEvents(true) on pull-to-refresh
\* and triggerUpdate() on the update button
Callers == {"effect", "page"}

\* no call made yet
IdleCall == [fn |-> "none", pc |-> "idle", last |-> "none"]

\* mutant: an error keeps the loading flag
eventsReducerErrorKeepsLoading(st, type, payload, t) ==
    CASE type \in {"FETCH_EVENTS_START", "TRIGGER_UPDATE_START"} ->
            [st EXCEPT !.loading = TRUE, !.error = ""]
      [] type \in {"FETCH_EVENTS_SUCCESS", "TRIGGER_UPDATE_SUCCESS"} ->
            [st EXCEPT !.loading = FALSE, !.events = payload,
                       !.lastUpdated = t, !.error = ""]
      [] type \in {"FETCH_EVENTS_ERROR", "TRIGGER_UPDATE_ERROR"} ->
            [st EXCEPT !.error = payload]
      [] OTHER -> st

\* eventsReducer(state, action) at time t; error null is ""
eventsReducer(st, type, payload, t) ==
    CASE type \in {"FETCH_EVENTS_START", "TRIGGER_UPDATE_START"} ->
            [st EXCEPT !.loading = TRUE, !.error = ""]
      [] type \in {"FETCH_EVENTS_SUCCESS", "TRIGGER_UPDATE_SUCCESS"} ->
            [st EXCEPT !.loading = FALSE, !.events = payload,
                       !.lastUpdated = t, !.error = ""]
      [] type \in {"FETCH_EVENTS_ERROR", "TRIGGER_UPDATE_ERROR"} ->
            [st EXCEPT !.loading = FALSE, !.error = payload]
      [] OTHER -> st

\* the message of the error getEvents throws for the reply r
FetchErrorOf(r) ==
    CASE r.settled = "rejected" -> "Failed to fetch"
      [] ~r.ok -> "Failed to fetch events: 500 Internal Server Error"
      [] r.json # "valid" -> "Unexpected token < in JSON at position 0"
      [] ~r.success -> "Failed to fetch events"
      [] OTHER -> "Events data is invalid or missing"

\* response.ok, then data.events && data.events.length > 0
HasEvents(r) ==
    /\ r.settled = "fulfilled" /\ r.ok /\ r.json = "valid"
    /\ r.events = "array" /\ r.list # <<>>

\* fetch(...) or response.json() rejected, so the enclosing catch runs
Threw(r) == r.settled = "rejected" \/ (r.ok /\ r.json # "valid")

\* EventService.triggerUpdate resolves with true
TriggerSucceeded(r) ==
    r.settled = "fulfilled" /\ r.ok /\ r.json = "valid" /\ r.success

\* the type of the action a call dispatches: FETCH_EVENTS_... in
\* fetchEvents, TRIGGER_UPDATE_... in triggerUpdate
TypeOf(fn, suffix) ==
    (IF fn = "fetchEvents" THEN "FETCH_EVENTS_" ELSE "TRIGGER_UPDATE_")
        \o suffix

InitContext ==
    /\ cache \in { NoItem, Entry(EarlierEvents, StartWall),
                   Entry(EarlierEvents, Epoch - 1) }
    /\ wall = StartWall
    /\ svc = NoCall
    /\ calls = [c \in Callers |-> IdleCall]
    /\ eventsState = initialState
    /\ now = Epoch
    /\ ExtractIdle
    /\ AggIdle
    /\ NormIdle
    /\ ProfileIdle
    /\ BrowserIdle
    /\ RequestIdle

\* the call of c, the state of the reducer and the cache item after a step
ContextStep(c, k, st, item) ==
    /\ calls' = [calls EXCEPT ![c] = k]
    /\ eventsState' = st
    /\ cache' = item
    /\ UNCHANGED <<wall, svc>>
    /\ ClientFrame

\* the call dispatches an action of the given kind and goes on at pc
Dispatching(c, suffix, payload, pcAfter, item) ==
    ContextStep(c,
        [calls[c] EXCEPT !.pc = pcAfter,
                         !.last = TypeOf(calls[c].fn, suffix)],
        eventsReducer(eventsState, TypeOf(calls[c].fn, suffix), payload, wall),
        item)

\* fetchEvents(forceRefresh) up to its first pending await: START, then
\* getEvents, which returns the cached events at once (SUCCESS) or waits for
\* the API
StartFetchEvents(c) ==
    /\ calls[c].pc = "idle"
    /\ IF GetEventsFirst(c = "page", cache, wall).pc = "returned"
       THEN ContextStep(c,
                [fn |-> "fetchEvents", pc |-> "done",
                 last |-> "FETCH_EVENTS_SUCCESS"],
                eventsReducer(
                    eventsReducer(eventsState, "FETCH_EVENTS_START", <<>>, wall),
                    "FETCH_EVENTS_SUCCESS",
                    GetEventsFirst(c = "page", cache, wall).result, wall),
                cache)
       ELSE ContextStep(c,
                [fn |-> "fetchEvents", pc |-> "getEvents",
                 last |-> "FETCH_EVENTS_START"],
                eventsReducer(eventsState, "FETCH_EVENTS_START", <<>>, wall),
                GetEventsFirst(c = "page", cache, wall).item)

\* triggerUpdate() up to its first await: START, then the test endpoint
StartTriggerUpdate(c) ==
    /\ c = "page"
    /\ calls[c].pc = "idle"
    /\ ContextStep(c,
           [fn |-> "triggerUpdate", pc |-> "testing",
            last |-> "TRIGGER_UPDATE_START"],
           eventsReducer(eventsState, "TRIGGER_UPDATE_START", <<>>, wall),
           cache)

\* the request of getEvents settles: SUCCESS with the events it returns, or
\* ERROR and the request to the test endpoint
GetEventsSettles(c, r) ==
    /\ calls[c].pc \in {"getEvents", "refetching"}
    /\ IF GetEventsAfter(r, cache, wall).pc = "returned"
       THEN Dispatching(c, "SUCCESS", GetEventsAfter(r, cache, wall).result,
                        "done", GetEventsAfter(r, cache, wall).item)
       ELSE Dispatching(c, "ERROR", FetchErrorOf(r), "fallback",
                        GetEventsAfter(r, cache, wall).item)

\* the request to the test endpoint made after an ERROR settles
FallbackSettles(c, r) ==
    /\ calls[c].pc = "fallback"
    /\ IF HasEvents(r)
       THEN Dispatching(c, "SUCCESS", r.list, "done", cache)
       ELSE ContextStep(c, [calls[c] EXCEPT !.pc = "done"], eventsState, cache)

\* the first request of triggerUpdate, to the test endpoint, settles; the
\* call goes on to EventService.triggerUpdate whatever the reply
TestSettles(c, r) ==
    /\ calls[c].pc = "testing"
    /\ ContextStep(c, [calls[c] EXCEPT !.pc = "triggering"], eventsState,
                   cache)

\* EventService.triggerUpdate resolves: with true, getEvents(true) follows;
\* with false, the request to get-events?refresh=true
TriggerSettles(c, r) ==
    /\ calls[c].pc = "triggering"
    /\ ContextStep(c,
           [calls[c] EXCEPT !.pc = IF TriggerSucceeded(r)
                                   THEN "refetching" ELSE "direct"],
           eventsState,
           IF TriggerSucceeded(r)
           THEN GetEventsFirst(TRUE, cache, wall).item ELSE cache)

\* the request to get-events?refresh=true settles
DirectSettles(c, r) ==
    /\ calls[c].pc = "direct"
    /\ IF HasEvents(r)
       THEN Dispatching(c, "SUCCESS", r.list, "done", cache)
       ELSE IF Threw(r)
       THEN Dispatching(c, "ERROR",
                        "Update failed and all fallbacks exhausted", "done",
                        cache)
       ELSE ContextStep(c, [calls[c] EXCEPT !.pc = "directTest"],
                        eventsState, cache)

\* the last request of triggerUpdate, to the test endpoint, settles
DirectTestSettles(c, r) ==
    /\ calls[c].pc = "directTest"
    /\ IF HasEvents(r)
       THEN Dispatching(c, "SUCCESS", r.list, "done", cache)
       ELSE Dispatching(c, "ERROR",
                        "Update failed and all fallbacks exhausted", "done",
                        cache)

\* the pending request of the call of c settles
Settles(c) ==
    \E r \in Replies :
        \/ GetEventsSettles(c, r)
        \/ FallbackSettles(c, r)
        \/ TestSettles(c, r)
        \/ TriggerSettles(c, r)
        \/ DirectSettles(c, r)
        \/ DirectTestSettles(c, r)

NextContext ==
    \/ \E c \in Callers : StartFetchEvents(c)
    \/ \E c \in Callers : StartTriggerUpdate(c)
    \/ \E c \in Callers : Settles(c)

SpecContext == InitContext /\ [][NextContext]_vars

\* every network request eventually settles
SpecContextFair ==
    /\ InitContext
    /\ [][NextContext]_vars
    /\ \A c \in Callers : WF_vars(Settles(c))

\* the call of c has started and has not completed
InProgress(c) == calls[c].pc \notin {"idle", "done"}

\* C29: state.loading is true whenever a fetchEvents or triggerUpdate call is
\* in progress, also when calls overlap.
C29_LoadingWhileInProgress ==
    (\E c \in Callers : InProgress(c)) => eventsState.loading

\* the actions that end the loading
EndTypes ==
    {"FETCH_EVENTS_SUCCESS", "FETCH_EVENTS_ERROR",
     "TRIGGER_UPDATE_SUCCESS", "TRIGGER_UPDATE_ERROR"}

ErrorTypes == {"FETCH_EVENTS_ERROR", "TRIGGER_UPDATE_ERROR"}

\* C30: when every request settles, every call that has started completes;
\* the last action a completed call dispatched is a SUCCESS or an ERROR, so
\* that loading is false once no call is in progress; and a step in which a
\* call dispatches an ERROR last leaves the loaded events unchanged.
C30_CallsCompleteNotLoading ==
    /\ \A c \in Callers : InProgress(c) ~> calls[c].pc = "done"
    /\ [](\A c \in Callers :
             calls[c].pc = "done" => calls[c].last \in EndTypes)
    /\ []((\A c \in Callers : ~InProgress(c)) => ~eventsState.loading)
    /\ [][\A c \in Callers :
             (calls'[c] # calls[c] /\ calls'[c].last \in ErrorTypes) =>
                 eventsState'.events = eventsState.events]_vars

\* both calls completed, the page's triggerUpdate with an ERROR after events
\* had been loaded
C30_Witness ==
    /\ \A c \in Callers : calls[c].pc = "done"
    /\ calls["page"].last = "TRIGGER_UPDATE_ERROR"
    /\ eventsState.events # <<>>
    /\ eventsState.error # ""

====
